---- MODULE Spec2Model ----
(***************************************************************************)
(* Phase-Plane: the client side of the phase-portrait explorer.            *)
(*                                                                         *)
(* The repository holds three generations of the PhasePlane component:     *)
(*   - the inline-engine component (src/src/PhasePlane.js:637-1493), which *)
(*     parses, computes and draws inside React effects  (SpecInline);      *)
(*   - the worker client with request queue and animation cache            *)
(*     (src/unnamed/part_002)                            (SpecWorker);     *)
(*   - the first worker client (src/src/PhasePlane.js:1-635), whose        *)
(*     handlers are the same as part_002's except where noted.             *)
(*                                                                         *)
(* Numbers.  A JavaScript number v is modelled by the integer 2*v, so that *)
(* 10.5 (a value the grid input accepts) is representable.  H(n) is the    *)
(* model value of the integer n.  Texts typed by the user come from small  *)
(* catalogues; Number(text) and String(number) are tables over them.       *)
(***************************************************************************)
EXTENDS Integers, Sequences, FiniteSets, TLC

VARIABLES
    \* ---- React state shared by the three components
    exprX, exprY, domain, gridN, params, requiredParams, seeds, logs,
    mounted,
    \* ---- inline-engine component only
    compiled, dx, dy, lastReportRef, lastReportStateRef, now, canvas,
    \* the computation of the draw effect that is being followed step by
    \* step (its local variables), if any
    engine,
    \* ---- worker client only
    domainInputs, gridInput, anim, animCache, workerData, workerReady,
    requestIdRef, lastReportSigRef, lastStatusRef, inflightRef,
    queuedPayloadRef, isDraggingRef, dragTimeoutRef,
    \* the precomputeAnimation / reintegrateTrajectories call that is awaiting
    \* a frame, if any
    task,
    \* compute messages posted to the worker whose result the client has not
    \* received yet, oldest first; and the requestIds of all messages posted
    pending, posted

inlineOnly == << compiled, dx, dy, lastReportRef, lastReportStateRef, now, canvas,
                engine >>

workerOnly == << domainInputs, gridInput, anim, animCache, workerData,
                 workerReady, requestIdRef, lastReportSigRef, lastStatusRef,
                 inflightRef, queuedPayloadRef, isDraggingRef, dragTimeoutRef,
                 task, pending, posted >>

vars == << exprX, exprY, domain, gridN, params, requiredParams, seeds, logs,
           mounted, inlineOnly, workerOnly >>

-----------------------------------------------------------------------------
(* Bounds of the model *)

MaxLogLen == 6      \* user actions stop once the console holds this many entries
MaxSeeds  == 1      \* trajectory seeds placed
MaxTicks  == 2      \* clock advances explored
TickMs    == 300    \* milliseconds that pass in one clock advance

-----------------------------------------------------------------------------
(* Numbers and texts *)

H(n) == 2 * n

\* Number(text): the texts that denote a finite number
IsNumericText(t) == t \in {"", "-3", "0", "1", "3", "5", "8", "10.5", "40", "60", "500"}

ToNumber(t) ==
    CASE t = ""     -> 0
      [] t = "-3"   -> H(-3)
      [] t = "0"    -> 0
      [] t = "1"    -> H(1)
      [] t = "3"    -> H(3)
      [] t = "5"    -> H(5)
      [] t = "8"    -> H(8)
      [] t = "10.5" -> 21
      [] t = "40"   -> H(40)
      [] t = "60"   -> H(60)
      [] t = "500"  -> H(500)

IsInteger(v) == v % 2 = 0

clamp(v, a, b) == IF v < a THEN a ELSE IF v > b THEN b ELSE v

\* Number.prototype.toFixed(3) on model values: sign, integer part, thousandths
ToFixed3(v) ==
    LET a == IF v < 0 THEN -v ELSE v
    IN  << IF v < 0 THEN "-" ELSE "", a \div 2, (a % 2) * 500 >>

defaultDomain == [xMin |-> H(-3), xMax |-> H(3), yMin |-> H(-3), yMax |-> H(3)]

DomainKeys == {"xMin", "xMax", "yMin", "yMax"}

-----------------------------------------------------------------------------
(* Expressions: mathjs parse / derivative over a catalogue of texts *)

DefaultExprX == "mu*x - x^2 - y"
DefaultExprY == "x + mu*y - y^3"

\* toAscii: the Greek letter is rewritten to "mu" before parsing
toAscii(s) ==
    CASE s = "μ*x - x^2 - y" -> "mu*x - x^2 - y"
      [] OTHER -> s

\* math.parse throws on these
ParseFails(a) == a \in {"x +", "y *"}

ParseMessage(a) ==
    CASE a = "x +" -> "Unexpected end of expression (char 4)"
      [] a = "y *" -> "Unexpected end of expression (char 4)"

\* math.derivative throws on these (parse succeeds)
DerivativeFails(a) == a \in {"gamma(x)"}

DerivativeMessage(a) ==
    CASE a = "gamma(x)" -> "Function \"gamma\" is not supported by derivative"

\* symbolNames: the symbols of a parsed node outside RESERVED
symbolNames(a) ==
    CASE a = "mu*x - x^2 - y" -> {"mu"}
      [] a = "x + mu*y - y^3" -> {"mu"}
      [] a = "gamma(x)"       -> {"gamma"}
      [] OTHER                -> {}

\* `Error: ${t}`
ErrorText(m) ==
    CASE m = "Unexpected end of expression (char 4)"
            -> "Error: Unexpected end of expression (char 4)"
      [] m = "Function \"gamma\" is not supported by derivative"
            -> "Error: Function \"gamma\" is not supported by derivative"
      [] m = "Bounds must satisfy xMin < xMax and yMin < yMax"
            -> "Error: Bounds must satisfy xMin < xMax and yMin < yMax"
      [] m = "Grid must be an integer between 8 and 200"
            -> "Error: Grid must be an integer between 8 and 200"
      [] OTHER -> "Error: Worker error"

-----------------------------------------------------------------------------
(* useLogs *)

LogKeep == 400

\* entries.slice(-400)
SliceLast(entries, n) ==
    IF Len(entries) <= n THEN entries
    ELSE SubSeq(entries, Len(entries) - n + 1, Len(entries))

\* The text of an entry is its message and, for engine reports, the values
\* interpolated into it.
NoArg == << "", "", {}, << 0, 0, 0, 0 >>, 0 >>

Text(msg, arg) == [msg |-> msg, arg |-> arg]

pushKeepingAll(entries, type, text) ==
    IF Len(entries) > 0
       /\ entries[Len(entries)].type = type
       /\ entries[Len(entries)].text = text
    THEN entries
    ELSE entries \o << [type |-> type, text |-> text] >>

push(entries, type, text) ==
    IF Len(entries) > 0
       /\ entries[Len(entries)].type = type
       /\ entries[Len(entries)].text = text
    THEN entries
    ELSE SliceLast(entries, LogKeep) \o << [type |-> type, text |-> text] >>

line(entries, msg)  == push(entries, "text", Text(msg, NoArg))
latex(entries, text) == push(entries, "latex", text)
error(entries, msg) == push(entries, "text", Text(ErrorText(msg), NoArg))

-----------------------------------------------------------------------------
(* Nullable values and the params object *)

\* null is the empty tuple, a value v is << v >>
Null == << >>
Some(v) == << v >>

\* params: an object, as its set of << key, value >> pairs
HasKey(p, k) == \E e \in p : e[1] = k
Keys(p) == { e[1] : e \in p }
Put(p, k, v) == { e \in p : e[1] # k } \cup { << k, v >> }

\* the axes of a domain, as a tuple
DomainTuple(d) == << d.xMin, d.xMax, d.yMin, d.yMax >>

-----------------------------------------------------------------------------
(* The inline-engine component: src/src/PhasePlane.js:637-1493           *)
(*                                                                         *)
(* A state of the component is a record of its useState values, its refs   *)
(* and what the canvas shows.  An effect reads the values of the render it *)
(* belongs to (closure) and queues state updates that the next render      *)
(* sees.                                                                   *)

ReportInterval == 500

EmptySignature == << "", "", {}, NoArg >>

BlankCanvas == [cleared |-> TRUE, vectors |-> 0, sys |-> NoArg, trajectories |-> 0]

\* the useState / useRef initial values
InitialState ==
    [ exprX |-> DefaultExprX, exprY |-> DefaultExprY,
      domain |-> defaultDomain, gridN |-> H(40),
      params |-> {}, requiredParams |-> {},
      compiled |-> Null, dx |-> Null, dy |-> Null,
      seeds |-> << >>, logs |-> << >>,
      lastReportRef |-> 0, lastReportStateRef |-> EmptySignature,
      canvas |-> BlankCanvas ]

\* a value that is not a finite number (NaN): it is never compared or
\* combined, every use is behind IsFinite
NaN == 1073741824

IsFinite(v) == v # NaN

\* an updater that adds the missing keys and deletes none
SyncParamsKeepOthers(prev, required) ==
    { e \in prev : IsFinite(e[2]) \/ e[1] \notin required }
        \cup { << k, H(1) >> :
                  k \in { r \in required : \A e \in prev : e[1] = r => ~IsFinite(e[2]) } }

\* setParams updater of the parse effect: a required key gets 1 when it is
\* missing or its value is not finite, other keys are deleted
SyncParams(prev, required) ==
    { e \in prev : e[1] \in required /\ IsFinite(e[2]) }
        \cup { << k, H(1) >> :
                  k \in { r \in required : \A e \in prev : e[1] = r => ~IsFinite(e[2]) } }

\* Parse & compile effect.  requiredParams is the sorted array of a set of
\* names, modelled as that set.
CompileEffect(s) ==
    LET fx == toAscii(s.exprX)
        gy == toAscii(s.exprY)
        failed(m) == [s EXCEPT !.compiled = Null, !.dx = Null, !.dy = Null,
                               !.logs = error(@, m)]
    IN  IF ParseFails(fx) THEN failed(ParseMessage(fx))
        ELSE IF ParseFails(gy) THEN failed(ParseMessage(gy))
        ELSE
          LET sortedSyms == symbolNames(fx) \cup symbolNames(gy)
              t == [s EXCEPT !.requiredParams = sortedSyms,
                             !.params = SyncParams(@, sortedSyms)]
          IN  IF DerivativeFails(fx) \/ DerivativeFails(gy)
              THEN [t EXCEPT !.compiled = Null, !.dx = Null, !.dy = Null,
                             !.logs = error(@, DerivativeMessage(
                                 IF DerivativeFails(fx) THEN fx ELSE gy))]
              ELSE [t EXCEPT !.compiled = Some([nodeX |-> fx, nodeY |-> gy]),
                             !.dx = Some(fx), !.dy = Some(gy),
                             !.logs = latex(@, Text("Parsed",
                                 << fx, gy, {}, << 0, 0, 0, 0 >>, 0 >>))]

\* The equilibrium finder is a deterministic function of the compiled
\* system, the parameter values, the domain and the grid; its result is
\* identified by those inputs.
refinedPoints(c) ==
    << c.compiled[1].nodeX, c.compiled[1].nodeY, c.params,
       DomainTuple(c.domain), c.gridN >>

\* `${k}:${Number(params[k]).toFixed(3)}` over the sorted keys
sortedParams(p) == { << e[1], ToFixed3(e[2]) >> : e \in p }

signatureOf(c) == << c.exprX, c.exprY, sortedParams(c.params), refinedPoints(c) >>

\* for (i = 0; i < N; i++): the number of iterations for a grid value N
LoopCount(n) == (n + 1) \div 2

\* Draw effect: c is the render whose values the effect closes over, s the
\* component state it acts on (refs, canvas, queued log updates), t the
\* clock.  The "Fixed points" entry stands for the fixed-point list and the
\* per-point classification entries that follow it.
DrawEffect(c, s, t) ==
    LET paramsReady == /\ c.compiled # Null
                       /\ c.dx # Null
                       /\ c.dy # Null
                       /\ \A k \in c.requiredParams : HasKey(c.params, k)
    IN  IF ~paramsReady THEN [s EXCEPT !.canvas = BlankCanvas]
        ELSE
          LET pts == refinedPoints(c)
              signature == signatureOf(c)
              report == signature # s.lastReportStateRef
                           \/ t - s.lastReportRef > ReportInterval
              shown == [cleared |-> FALSE,
                        vectors |-> LoopCount(c.gridN) * LoopCount(c.gridN),
                        sys |-> pts,
                        trajectories |-> Len(c.seeds)]
          IN  IF report
              THEN [s EXCEPT !.canvas = shown,
                             !.lastReportStateRef = signature,
                             !.lastReportRef = t,
                             !.logs = latex(latex(@,
                                 Text("Nullclines", << c.compiled[1].nodeX,
                                     c.compiled[1].nodeY, {}, << 0, 0, 0, 0 >>, 0 >>)),
                                 Text("Fixed points", pts))]
              ELSE [s EXCEPT !.canvas = shown]

\* the useState values of a state (what a render sees)
Rendered(s) == << s.exprX, s.exprY, s.domain, s.gridN, s.params,
                  s.requiredParams, s.compiled, s.dx, s.dy, s.seeds, s.logs >>

\* One commit of render s0 and the renders it causes.  The effects of a
\* commit all run with the values of that render; the state they set is
\* seen by the next render, whose draw effect runs again (latex is a new
\* function on every render, so the draw effect runs after every render).
Flush(s0, t, exprChanged) ==
    LET s1 == IF exprChanged THEN CompileEffect(s0) ELSE s0
        s2 == DrawEffect(s0, s1, t)
        compiledSet == exprChanged /\ s1.compiled # Null
    IN  IF compiledSet \/ Rendered(s2) # Rendered(s0)
        THEN DrawEffect(s2, s2, t)
        ELSE s2

Current ==
    [ exprX |-> exprX, exprY |-> exprY, domain |-> domain, gridN |-> gridN,
      params |-> params, requiredParams |-> requiredParams,
      compiled |-> compiled, dx |-> dx, dy |-> dy,
      seeds |-> seeds, logs |-> logs,
      lastReportRef |-> lastReportRef,
      lastReportStateRef |-> lastReportStateRef,
      canvas |-> canvas ]

Becomes(s) ==
    /\ exprX' = s.exprX
    /\ exprY' = s.exprY
    /\ domain' = s.domain
    /\ gridN' = s.gridN
    /\ params' = s.params
    /\ requiredParams' = s.requiredParams
    /\ compiled' = s.compiled
    /\ dx' = s.dx
    /\ dy' = s.dy
    /\ seeds' = s.seeds
    /\ logs' = s.logs
    /\ lastReportRef' = s.lastReportRef
    /\ lastReportStateRef' = s.lastReportStateRef
    /\ canvas' = s.canvas
    /\ UNCHANGED engine

-----------------------------------------------------------------------------
(* Inputs explored for the inline-engine component *)

ExprXInputs == { DefaultExprX, "x +", "gamma(x)" }
ExprYInputs == { DefaultExprY, "y *" }
BoundsTexts == { "3" }
GridTexts   == { "", "10.5" }
SliderTexts == { "0" }
SeedPoints  == { << 0, 0 >> }

\* console inputs, already trimmed and split on white space
InlineCommands ==
    { << "help" >>, << "clear" >>, << "frobnicate" >>,
      << "set", "mu", "3" >>, << "set", "nu", "3" >>, << "set", "mu", "abc" >>,
      << "grid", "60" >>, << "grid", "10.5" >>,
      << "bounds", "-3", "5", "-3", "3" >>, << "bounds", "3", "3", "-3", "3" >> }

-----------------------------------------------------------------------------
(* Actions of the inline-engine component *)

InlineQuiet == mounted /\ Len(logs) < MaxLogLen

\* first render and its effects
Mount ==
    /\ ~mounted
    /\ mounted' = TRUE
    /\ Becomes(Flush(Current, now, TRUE))
    /\ UNCHANGED << now, workerOnly >>

\* onChange of the two expression inputs: setExprX / setExprY
SetExprX(t) ==
    /\ InlineQuiet
    /\ t # exprX
    /\ Becomes(Flush([Current EXCEPT !.exprX = t], now, TRUE))
    /\ UNCHANGED << mounted, now, workerOnly >>

SetExprY(t) ==
    /\ InlineQuiet
    /\ t # exprY
    /\ Becomes(Flush([Current EXCEPT !.exprY = t], now, TRUE))
    /\ UNCHANGED << mounted, now, workerOnly >>

\* onChange of a bounds input: setDomain((d) => ({ ...d, [key]: Number(value) }))
BoundsInput(key, raw) ==
    /\ InlineQuiet
    /\ Becomes(Flush([Current EXCEPT !.domain[key] = ToNumber(raw)], now, FALSE))
    /\ UNCHANGED << mounted, now, workerOnly >>

\* onChange of the grid input: setGrid(clamp(Number(value) || 40, 8, 200))
GridValue(raw) ==
    clamp(IF ToNumber(raw) = 0 THEN H(40) ELSE ToNumber(raw), H(8), H(200))

GridInput(raw) ==
    /\ InlineQuiet
    /\ GridValue(raw) # gridN
    /\ Becomes(Flush([Current EXCEPT !.gridN = GridValue(raw)], now, FALSE))
    /\ UNCHANGED << mounted, now, workerOnly >>

\* onChange of a parameter slider / number box
ParamInput(k, raw) ==
    /\ InlineQuiet
    /\ k \in Keys(params)
    /\ Becomes(Flush([Current EXCEPT !.params = Put(@, k, ToNumber(raw))], now, FALSE))
    /\ UNCHANGED << mounted, now, workerOnly >>

\* canvas click / Seed button, and the Clear button
AddSeed(p) ==
    /\ InlineQuiet
    /\ Len(seeds) < MaxSeeds
    /\ Becomes(Flush([Current EXCEPT !.seeds = Append(@, p)], now, FALSE))
    /\ UNCHANGED << mounted, now, workerOnly >>

ClearSeeds ==
    /\ InlineQuiet
    /\ seeds # << >>
    /\ Becomes(Flush([Current EXCEPT !.seeds = << >>], now, FALSE))
    /\ UNCHANGED << mounted, now, workerOnly >>

\* onCommand (help, set, grid, bounds and the fall-through; the three
\* components share this code): the state after the command itself, before
\* the re-render
CommandResult(s, input) ==
    LET c == input[1]
        rest == Tail(input)
    IN  IF c = "help"
        THEN [s EXCEPT !.logs = line(@,
                "commands: set <param> <value> | grid <N> | bounds xMin xMax yMin yMax | clear")]
        ELSE IF c = "set" /\ Len(rest) = 2
        THEN IF ~HasKey(s.params, rest[1])
             THEN [s EXCEPT !.logs = line(@, "unknown param")]
             ELSE IF ~IsNumericText(rest[2])
             THEN [s EXCEPT !.logs = line(@, "value must be a number")]
             ELSE [s EXCEPT !.params = Put(@, rest[1], ToNumber(rest[2]))]
        ELSE IF c = "grid" /\ Len(rest) = 1
        THEN IF ~IsNumericText(rest[1])
                \/ ~IsInteger(ToNumber(rest[1]))
                \/ ToNumber(rest[1]) < H(8)
                \/ ToNumber(rest[1]) > H(200)
             THEN [s EXCEPT !.logs = line(@, "grid must be 8..200")]
             ELSE [s EXCEPT !.gridN = ToNumber(rest[1])]
        ELSE IF c = "bounds" /\ Len(rest) = 4
        THEN IF (\E i \in 1..4 : ~IsNumericText(rest[i]))
                \/ ToNumber(rest[1]) >= ToNumber(rest[2])
                \/ ToNumber(rest[3]) >= ToNumber(rest[4])
             THEN [s EXCEPT !.logs = line(@, "bad bounds")]
             ELSE [s EXCEPT !.domain = [xMin |-> ToNumber(rest[1]),
                                        xMax |-> ToNumber(rest[2]),
                                        yMin |-> ToNumber(rest[3]),
                                        yMax |-> ToNumber(rest[4])]]
        ELSE [s EXCEPT !.logs = line(@, "unknown command (help)")]

\* "clear" reloads the page: the component is constructed again
InlineCommand(input) ==
    /\ InlineQuiet
    /\ IF input[1] = "clear"
       THEN /\ Becomes(InitialState)
            /\ mounted' = FALSE
            /\ now' = 0
            /\ UNCHANGED workerOnly
       ELSE /\ Becomes(Flush(CommandResult(Current, input), now, FALSE))
            /\ UNCHANGED << mounted, now, workerOnly >>

\* time passes
Tick ==
    /\ mounted
    /\ now < MaxTicks * TickMs
    /\ now' = now + TickMs
    /\ UNCHANGED << exprX, exprY, domain, gridN, params, requiredParams, seeds,
                    logs, mounted, compiled, dx, dy, lastReportRef,
                    lastReportStateRef, canvas, engine, workerOnly >>

\* the variables of the other component stay at their initial values
InlineAtRest ==
    /\ compiled = InitialState.compiled
    /\ dx = InitialState.dx
    /\ dy = InitialState.dy
    /\ lastReportRef = InitialState.lastReportRef
    /\ lastReportStateRef = InitialState.lastReportStateRef
    /\ canvas = InitialState.canvas
    /\ now = 0
    /\ engine = << >>

WorkerAtRest ==
    /\ domainInputs = [xMin |-> "-3", xMax |-> "3", yMin |-> "-3", yMax |-> "3"]
    /\ gridInput = "40"
    /\ anim = [key |-> << >>, min |-> H(-3), max |-> H(3)]
    /\ animCache = [frames |-> << >>, currentFrame |-> 0, isPlaying |-> FALSE,
                    isPrecomputing |-> FALSE, progress |-> << 0, 1 >>]
    /\ workerData = << >>
    /\ workerReady = FALSE
    /\ requestIdRef = 0
    /\ lastReportSigRef = << "", "", {}, << 0, 0, 0, 0 >>, 0 >>
    /\ lastStatusRef = << "", "", {} >>
    /\ inflightRef = FALSE
    /\ queuedPayloadRef = << >>
    /\ isDraggingRef = FALSE
    /\ dragTimeoutRef = FALSE
    /\ task = << >>
    /\ pending = << >>
    /\ posted = << >>

InitInline ==
    /\ WorkerAtRest
    /\ exprX = InitialState.exprX
    /\ exprY = InitialState.exprY
    /\ domain = InitialState.domain
    /\ gridN = InitialState.gridN
    /\ params = InitialState.params
    /\ requiredParams = InitialState.requiredParams
    /\ compiled = InitialState.compiled
    /\ dx = InitialState.dx
    /\ dy = InitialState.dy
    /\ seeds = InitialState.seeds
    /\ logs = InitialState.logs
    /\ lastReportRef = InitialState.lastReportRef
    /\ lastReportStateRef = InitialState.lastReportStateRef
    /\ canvas = InitialState.canvas
    /\ mounted = FALSE
    /\ now = 0
    /\ engine = << >>

NextInline ==
    \/ Mount
    \/ \E t \in ExprXInputs : SetExprX(t)
    \/ \E t \in ExprYInputs : SetExprY(t)
    \/ \E key \in DomainKeys, raw \in BoundsTexts : BoundsInput(key, raw)
    \/ \E raw \in GridTexts : GridInput(raw)
    \/ \E k \in {"mu"}, raw \in SliderTexts : ParamInput(k, raw)
    \/ \E p \in SeedPoints : AddSeed(p)
    \/ ClearSeeds
    \/ \E input \in InlineCommands : InlineCommand(input)
    \/ Tick

SpecInline == InitInline /\ [][NextInline]_vars

-----------------------------------------------------------------------------
(* The worker client: src/unnamed/part_002                                 *)
(*                                                                         *)
(* As for the inline component, a state is a record of the useState        *)
(* values and refs, extended with the messages in flight.                  *)

MaxRequestId == 6   \* user actions stop when this many requests are committed
MaxEditId    == 3   \* the same, for the bounds, grid, drag and console handlers
MaxEditLogLen == 3  \* console entries after which those handlers stop
numFrames    == 2   \* frames of one pre-computation (the loop bound at line 198
                    \* is 120; the frame loop is explored for this many)

NoSignatureW == << "", "", {}, << 0, 0, 0, 0 >>, 0 >>
NoStatus == << "", "", {} >>

ClientInitial ==
    [ exprX |-> DefaultExprX, exprY |-> DefaultExprY,
      domain |-> defaultDomain,
      domainInputs |-> [xMin |-> "-3", xMax |-> "3", yMin |-> "-3", yMax |-> "3"],
      gridN |-> H(40), gridInput |-> "40",
      params |-> {}, requiredParams |-> {},
      anim |-> [key |-> Null, min |-> H(-3), max |-> H(3)],
      animCache |-> [frames |-> << >>, currentFrame |-> 0, isPlaying |-> FALSE,
                     isPrecomputing |-> FALSE, progress |-> << 0, 1 >>],
      seeds |-> << >>, workerData |-> Null, workerReady |-> FALSE,
      requestIdRef |-> 0, lastReportSigRef |-> NoSignatureW,
      lastStatusRef |-> NoStatus,
      inflightRef |-> FALSE, queuedPayloadRef |-> Null,
      isDraggingRef |-> FALSE, dragTimeoutRef |-> FALSE,
      logs |-> << >>, task |-> Null, pending |-> << >>, posted |-> << >> ]

\* String(number) for the values the bounds and grid inputs can hold
ToText(v) ==
    CASE v = H(-3)  -> "-3"
      [] v = 0      -> "0"
      [] v = H(1)   -> "1"
      [] v = H(3)   -> "3"
      [] v = H(5)   -> "5"
      [] v = H(8)   -> "8"
      [] v = H(40)  -> "40"
      [] v = H(60)  -> "60"

\* ---- the worker (./workers/phaseWorker.js), from the interface it is
\* ---- specified to have

\* the portrait computed for a payload is a function of the payload
DataOf(payload) == [portrait |-> payload, trajectories |-> payload]

WorkerSignature(payload) ==
    << payload.exprX, payload.exprY, sortedParams(payload.params),
       DomainTuple(payload.domain), payload.gridN >>

WorkerResult(payload) ==
    LET fx == toAscii(payload.exprX)
        gy == toAscii(payload.exprY)
        base == [status |-> "ok", requiredParams |-> {}, message |-> "",
                 missingParams |-> {}, logs |-> << >>,
                 reportSignature |-> NoSignatureW, data |-> Null]
        bad(a) == ParseFails(a) \/ DerivativeFails(a)
        msg(a) == IF ParseFails(a) THEN ParseMessage(a) ELSE DerivativeMessage(a)
    IN  IF bad(fx) \/ bad(gy)
        THEN [base EXCEPT !.status = "error",
                          !.message = IF bad(fx) THEN msg(fx) ELSE msg(gy)]
        ELSE
          LET req == symbolNames(fx) \cup symbolNames(gy)
              missing == { k \in req : ~HasKey(payload.params, k) }
              d == payload.domain
          IN  IF d.xMin >= d.xMax \/ d.yMin >= d.yMax
              THEN [base EXCEPT !.status = "invalidDomain",
                                !.requiredParams = req,
                                !.message = "Bounds must satisfy xMin < xMax and yMin < yMax"]
              ELSE IF missing # {}
              THEN [base EXCEPT !.status = "missingParams",
                                !.requiredParams = req,
                                !.missingParams = missing]
              ELSE [base EXCEPT !.requiredParams = req,
                                !.reportSignature = WorkerSignature(payload),
                                !.logs = << [type |-> "latex",
                                             text |-> Text("Fixed points",
                                                 << fx, gy, payload.params,
                                                    DomainTuple(d), payload.gridN >>)] >>,
                                !.data = Some(DataOf(payload))]

\* ---- the client

\* the payload the compute effect builds from the values of a render
PayloadOf(s) ==
    [ exprX |-> s.exprX, exprY |-> s.exprY, params |-> s.params,
      domain |-> s.domain, gridN |-> s.gridN, seeds |-> s.seeds,
      fastMode |-> (s.isDraggingRef \/ s.animCache.isPlaying) ]

\* worker.postMessage({ type: "compute", requestId, payload })
PostMessage(s, requestId, payload) ==
    [s EXCEPT !.pending = Append(@, [requestId |-> requestId, payload |-> payload]),
              !.posted = Append(@, requestId)]

\* a postCompute that keeps the payload already queued
postComputeKeepsQueued(s, payload) ==
    IF ~s.workerReady THEN s
    ELSE IF s.inflightRef
    THEN [s EXCEPT !.queuedPayloadRef = IF @ = Null THEN Some(payload) ELSE @]
    ELSE PostMessage([s EXCEPT !.requestIdRef = @ + 1, !.inflightRef = TRUE],
                     s.requestIdRef + 1, payload)

postCompute(s, payload) ==
    IF ~s.workerReady THEN s
    ELSE IF s.inflightRef
    THEN [s EXCEPT !.queuedPayloadRef = Some(payload)]
    ELSE PostMessage([s EXCEPT !.requestIdRef = @ + 1, !.inflightRef = TRUE],
                     s.requestIdRef + 1, payload)

\* the animCache the result handler closes over: the handler is installed by
\* the mount effect, whose dependencies never change
CapturedIsPrecomputing == ClientInitial.animCache.isPrecomputing

RECURSIVE PushAll(_, _)
PushAll(entries, newLogs) ==
    IF newLogs = << >> THEN entries
    ELSE PushAll(push(entries, Head(newLogs).type, Head(newLogs).text), Tail(newLogs))

\* worker.onmessage, lines 66-120: apply a result
ApplyResult(s, res) ==
    LET s1 == [s EXCEPT !.requiredParams = res.requiredParams,
                        !.workerData = IF res.status = "ok" THEN res.data ELSE Null]
        s2 == IF Len(res.logs) > 0 /\ ~s1.isDraggingRef /\ ~CapturedIsPrecomputing
                 /\ res.reportSignature # s1.lastReportSigRef
              THEN [s1 EXCEPT !.lastReportSigRef = res.reportSignature,
                              !.logs = PushAll(@, res.logs)]
              ELSE s1
        statusSig == << res.status, res.message, res.missingParams >>
    IN  IF res.status = "ok"
        THEN [s2 EXCEPT !.lastStatusRef = << "ok", "", {} >>]
        ELSE IF statusSig # s2.lastStatusRef
        THEN [s2 EXCEPT !.lastStatusRef = statusSig,
                        !.logs = IF res.status = "invalidDomain" /\ res.message # ""
                                 THEN error(@, res.message)
                                 ELSE IF res.status = "missingParams"
                                         /\ res.missingParams # {}
                                 THEN push(@, "text", Text("Set parameter values for",
                                         << "", "", { << k, 0 >> : k \in res.missingParams },
                                            << 0, 0, 0, 0 >>, 0 >>))
                                 ELSE IF res.status = "error" /\ res.message # ""
                                 THEN error(@, res.message)
                                 ELSE @]
        ELSE s2

\* a dispatch that posts the queued payload under the current requestId
DispatchQueuedSameId(s) ==
    LET s1 == [s EXCEPT !.inflightRef = FALSE]
    IN  IF s1.queuedPayloadRef # Null
        THEN PostMessage([s1 EXCEPT !.queuedPayloadRef = Null,
                                    !.inflightRef = TRUE],
                         s1.requestIdRef, s1.queuedPayloadRef[1])
        ELSE s1

\* worker.onmessage, lines 122-131: mark complete and send any queued request
DispatchQueued(s) ==
    LET s1 == [s EXCEPT !.inflightRef = FALSE]
    IN  IF s1.queuedPayloadRef # Null
        THEN PostMessage([s1 EXCEPT !.queuedPayloadRef = Null,
                                    !.requestIdRef = @ + 1,
                                    !.inflightRef = TRUE],
                         s1.requestIdRef + 1, s1.queuedPayloadRef[1])
        ELSE s1

onmessage(s, m) == DispatchQueued(ApplyResult(s, m.result))

\* ---- animation pre-computation

\* const t = i / (numFrames - 1); paramValue = min + t * (max - min)
FrameValue(i, n, min, max) == min + (i * (max - min)) \div (n - 1)

\* the payload of a frame request: the values of the render in which the
\* button was clicked, with the animated parameter replaced
FramePayload(c, paramValue) ==
    [ exprX |-> c.exprX, exprY |-> c.exprY,
      params |-> Put(c.params, c.anim.key[1], paramValue),
      domain |-> c.domain, gridN |-> c.gridN, seeds |-> c.seeds,
      fastMode |-> FALSE ]

\* the Promise executor of one loop iteration: take the next requestId and
\* post the frame request
PostFrame(s, t) ==
    LET requestId == s.requestIdRef + 1
        paramValue == IF t.kind = "precompute"
                      THEN FrameValue(t.i, t.total, t.closure.anim.min, t.closure.anim.max)
                      ELSE t.frames[t.i + 1].paramValue
    IN  PostMessage([s EXCEPT !.requestIdRef = requestId,
                              !.task = Some([t EXCEPT !.requestId = requestId])],
                    requestId, FramePayload(t.closure, paramValue))

\* the values a useCallback closes over
ClosureOf(s) ==
    [ exprX |-> s.exprX, exprY |-> s.exprY, params |-> s.params,
      domain |-> s.domain, gridN |-> s.gridN, seeds |-> s.seeds,
      anim |-> s.anim ]

\* precomputeAnimation, up to its first await
precomputeAnimation(s) ==
    IF s.anim.key = Null \/ ~s.workerReady THEN s
    ELSE PostFrame([s EXCEPT !.animCache.isPrecomputing = TRUE,
                             !.animCache.progress = << 0, 1 >>,
                             !.animCache.frames = << >>],
                   [kind |-> "precompute", i |-> 0, total |-> numFrames,
                    requestId |-> 0, frames |-> << >>, closure |-> ClosureOf(s),
                    currentWorkerData |-> s.workerData])

\* reintegrateTrajectories, up to its first await
reintegrateTrajectories(s) ==
    IF Len(s.animCache.frames) = 0 \/ ~s.workerReady THEN s
    ELSE PostFrame([s EXCEPT !.animCache.isPrecomputing = TRUE,
                             !.animCache.progress = << 0, 1 >>],
                   [kind |-> "reintegrate", i |-> 0,
                    total |-> Len(s.animCache.frames),
                    requestId |-> 0, frames |-> s.animCache.frames,
                    closure |-> ClosureOf(s),
                    currentWorkerData |-> s.workerData])

\* the message listener of the awaited frame and the rest of the loop body
FrameHandler(s, m) ==
    IF s.task = Null \/ s.task[1].requestId # m.requestId THEN s
    ELSE
      LET t == s.task[1]
          res == m.result
          paramValue == FrameValue(t.i, t.total, t.closure.anim.min, t.closure.anim.max)
          frames ==
              IF res.status # "ok" THEN t.frames
              ELSE IF t.kind = "precompute"
              THEN Append(t.frames, [paramValue |-> paramValue, data |-> res.data[1]])
              ELSE [t.frames EXCEPT ![t.i + 1].data.trajectories =
                                        res.data[1].trajectories]
          s1 == [s EXCEPT !.animCache.progress = << t.i + 1, t.total >>]
      IN  IF t.i + 1 < t.total
          THEN PostFrame(s1, [t EXCEPT !.i = @ + 1, !.frames = frames])
          ELSE IF t.kind = "precompute"
          THEN [s1 EXCEPT !.task = Null,
                          !.workerData = t.currentWorkerData,
                          !.animCache.frames = frames,
                          !.animCache.isPrecomputing = FALSE,
                          !.animCache.progress = << 1, 1 >>,
                          !.animCache.currentFrame = 0]
          ELSE [s1 EXCEPT !.task = Null,
                          !.animCache.frames = frames,
                          !.animCache.isPrecomputing = FALSE,
                          !.animCache.progress = << 1, 1 >>]

\* ---- renders

\* the compute effect, for a render in which one of its dependencies changed
ComputeEffect(s) == postCompute(s, PayloadOf(s))

\* the effects that copy domain and gridN into the text inputs
SyncInputs(s) ==
    [s EXCEPT !.domainInputs = [k \in DomainKeys |-> ToText(s.domain[k])],
              !.gridInput = ToText(s.gridN)]

\* the render after requiredParams was set: the params effect, and the
\* compute effect when it changed params
RequiredParamsEffect(s) ==
    LET next == SyncParams(s.params, s.requiredParams)
    IN  IF next # s.params THEN ComputeEffect([s EXCEPT !.params = next]) ELSE s

\* a result message is delivered: the handler, the frame listener, and the
\* render that follows
Deliver(s, m) == RequiredParamsEffect(FrameHandler(onmessage(s, m), m))

-----------------------------------------------------------------------------
(* Inputs explored for the worker client *)

WExprXInputs == { DefaultExprX, "x +" }
WExprYInputs == { DefaultExprY, "y *" }
WBoundsKeys  == { "xMax" }
WBoundsTexts == { "-3", "5" }
WGridTexts   == { "60", "10.5" }
WSliderTexts == { "0" }

WorkerCommands ==
    { << "help" >>, << "clear" >>, << "set", "mu", "3" >>, << "grid", "8" >> }

-----------------------------------------------------------------------------
(* Actions of the worker client *)

Client ==
    [ exprX |-> exprX, exprY |-> exprY, domain |-> domain,
      domainInputs |-> domainInputs, gridN |-> gridN, gridInput |-> gridInput,
      params |-> params, requiredParams |-> requiredParams,
      anim |-> anim, animCache |-> animCache, seeds |-> seeds,
      workerData |-> workerData, workerReady |-> workerReady,
      requestIdRef |-> requestIdRef, lastReportSigRef |-> lastReportSigRef,
      lastStatusRef |-> lastStatusRef, inflightRef |-> inflightRef,
      queuedPayloadRef |-> queuedPayloadRef, isDraggingRef |-> isDraggingRef,
      dragTimeoutRef |-> dragTimeoutRef, logs |-> logs, task |-> task,
      pending |-> pending, posted |-> posted ]

ClientBecomes(s) ==
    /\ exprX' = s.exprX
    /\ exprY' = s.exprY
    /\ domain' = s.domain
    /\ domainInputs' = s.domainInputs
    /\ gridN' = s.gridN
    /\ gridInput' = s.gridInput
    /\ params' = s.params
    /\ requiredParams' = s.requiredParams
    /\ anim' = s.anim
    /\ animCache' = s.animCache
    /\ seeds' = s.seeds
    /\ workerData' = s.workerData
    /\ workerReady' = s.workerReady
    /\ requestIdRef' = s.requestIdRef
    /\ lastReportSigRef' = s.lastReportSigRef
    /\ lastStatusRef' = s.lastStatusRef
    /\ inflightRef' = s.inflightRef
    /\ queuedPayloadRef' = s.queuedPayloadRef
    /\ isDraggingRef' = s.isDraggingRef
    /\ dragTimeoutRef' = s.dragTimeoutRef
    /\ logs' = s.logs
    /\ task' = s.task
    /\ pending' = s.pending
    /\ posted' = s.posted
    /\ UNCHANGED inlineOnly

\* requests that the running pre-computation will still post
TaskRemaining == IF task = Null THEN 0 ELSE task[1].total - task[1].i - 1

\* the user acts while the model still has requests and console lines left
ClientQuiet ==
    /\ mounted
    /\ requestIdRef + TaskRemaining < MaxRequestId
    /\ Len(logs) < MaxLogLen

EditQuiet ==
    /\ mounted
    /\ requestIdRef < MaxEditId
    /\ Len(logs) < MaxEditLogLen

\* mount: the worker is created, then the compute effect posts the first
\* request in the render that sees workerReady
WMount ==
    /\ ~mounted
    /\ mounted' = TRUE
    /\ ClientBecomes(ComputeEffect([Client EXCEPT !.workerReady = TRUE]))

WSetExprX(t) ==
    /\ ClientQuiet
    /\ t # exprX
    /\ ClientBecomes(ComputeEffect([Client EXCEPT !.exprX = t]))
    /\ UNCHANGED mounted

WSetExprY(t) ==
    /\ ClientQuiet
    /\ t # exprY
    /\ ClientBecomes(ComputeEffect([Client EXCEPT !.exprY = t]))
    /\ UNCHANGED mounted

handleDomainInputChange(key, raw) ==
    /\ EditQuiet
    /\ ClientBecomes([Client EXCEPT !.domainInputs[key] = raw])
    /\ UNCHANGED mounted

\* onBlur / Enter of a bounds input
commitDomainValue(key) ==
    /\ EditQuiet
    /\ LET s == Client
           raw == s.domainInputs[key]
           revert == [s EXCEPT !.domainInputs[key] = ToText(s.domain[key])]
           next == [s.domain EXCEPT ![key] = ToNumber(raw)]
       IN  IF raw = "" \/ ~IsNumericText(raw)
           THEN ClientBecomes(revert)
           ELSE IF next.xMin >= next.xMax \/ next.yMin >= next.yMax
           THEN ClientBecomes([revert EXCEPT !.logs =
                    error(@, "Bounds must satisfy xMin < xMax and yMin < yMax")])
           ELSE ClientBecomes(ComputeEffect(SyncInputs([s EXCEPT !.domain = next])))
    /\ UNCHANGED mounted

handleGridChange(raw) ==
    /\ EditQuiet
    /\ ClientBecomes([Client EXCEPT !.gridInput = raw])
    /\ UNCHANGED mounted

\* onBlur / Enter of the grid input
commitGrid ==
    /\ EditQuiet
    /\ LET s == Client
           raw == s.gridInput
       IN  IF ~IsNumericText(raw) \/ ~IsInteger(ToNumber(raw))
              \/ ToNumber(raw) < H(8) \/ ToNumber(raw) > H(200)
           THEN ClientBecomes([s EXCEPT
                    !.logs = error(@, "Grid must be an integer between 8 and 200"),
                    !.gridInput = ToText(s.gridN)])
           ELSE IF ToNumber(raw) = s.gridN
           THEN ClientBecomes(s)
           ELSE ClientBecomes(ComputeEffect(SyncInputs([s EXCEPT !.gridN = ToNumber(raw)])))
    /\ UNCHANGED mounted

\* onChange of a parameter slider / number box
WParamInput(k, raw) ==
    /\ ClientQuiet
    /\ k \in Keys(params)
    /\ ClientBecomes(ComputeEffect([Client EXCEPT !.params = Put(@, k, ToNumber(raw))]))
    /\ UNCHANGED mounted

\* onMouseDown / onTouchStart of a slider
DragStart ==
    /\ EditQuiet
    /\ params # {}
    /\ ClientBecomes([Client EXCEPT !.isDraggingRef = TRUE, !.dragTimeoutRef = FALSE])
    /\ UNCHANGED mounted

\* onMouseUp / onTouchEnd of a slider: the 100 ms timer is started
DragEnd ==
    /\ EditQuiet
    /\ params # {}
    /\ ClientBecomes([Client EXCEPT !.dragTimeoutRef = TRUE])
    /\ UNCHANGED mounted

\* the timer fires: full-quality render after the drag
DragTimeout ==
    /\ mounted
    /\ dragTimeoutRef
    /\ ClientBecomes(ComputeEffect([Client EXCEPT !.isDraggingRef = FALSE,
                                                  !.dragTimeoutRef = FALSE]))
    /\ UNCHANGED mounted

WAddSeed(p) ==
    /\ ClientQuiet
    /\ Len(seeds) < MaxSeeds
    /\ ClientBecomes(ComputeEffect([Client EXCEPT !.seeds = Append(@, p)]))
    /\ UNCHANGED mounted

WClearSeeds ==
    /\ ClientQuiet
    /\ ClientBecomes(ComputeEffect([Client EXCEPT !.seeds = << >>]))
    /\ UNCHANGED mounted

\* the parameter select of the animation controls
SelectAnimKey(k) ==
    /\ ClientQuiet
    /\ IF k = Null THEN TRUE ELSE k[1] \in Keys(params)
    /\ k # anim.key
    /\ ClientBecomes([Client EXCEPT !.anim.key = k])
    /\ UNCHANGED mounted

\* the Render button
ClickRender ==
    /\ ClientQuiet
    /\ anim.key # Null
    /\ ~animCache.isPrecomputing
    /\ requestIdRef + numFrames <= MaxRequestId
    /\ ClientBecomes(precomputeAnimation(Client))
    /\ UNCHANGED mounted

\* the Update Paths button
ClickUpdatePaths ==
    /\ ClientQuiet
    /\ anim.key # Null
    /\ Len(animCache.frames) > 0
    /\ ~animCache.isPrecomputing
    /\ requestIdRef + Len(animCache.frames) <= MaxRequestId
    /\ ClientBecomes(reintegrateTrajectories(Client))
    /\ UNCHANGED mounted

\* the Play / Pause button; isPlaying is a dependency of the compute effect
TogglePlay ==
    /\ ClientQuiet
    /\ anim.key # Null
    /\ Len(animCache.frames) > 0
    /\ ~animCache.isPrecomputing
    /\ ClientBecomes(ComputeEffect([Client EXCEPT !.animCache.isPlaying = ~@]))
    /\ UNCHANGED mounted

\* show a cached frame: setWorkerData(frame.data) and the slider value
ShowFrame(s, frameIndex) ==
    LET frame == s.animCache.frames[frameIndex + 1]
        s1 == [s EXCEPT !.workerData = Some(frame.data)]
    IN  IF s.anim.key # Null
        THEN ComputeEffect([s1 EXCEPT !.params = Put(@, s.anim.key[1], frame.paramValue)])
        ELSE s1

\* one animation frame of the playback effect
PlaybackTick ==
    /\ ClientQuiet
    /\ animCache.isPlaying
    /\ Len(animCache.frames) > 0
    /\ LET nextFrame == (animCache.currentFrame + 1) % Len(animCache.frames)
       IN  ClientBecomes(ShowFrame([Client EXCEPT !.animCache.currentFrame = nextFrame],
                                   nextFrame))
    /\ UNCHANGED mounted

\* the scrub slider; leaving isPlaying re-runs the compute effect as well
Scrub(frameIndex) ==
    /\ ClientQuiet
    /\ anim.key # Null
    /\ Len(animCache.frames) > 0
    /\ ~animCache.isPrecomputing
    /\ frameIndex < Len(animCache.frames)
    /\ ClientBecomes(ShowFrame([Client EXCEPT !.animCache.currentFrame = frameIndex,
                                              !.animCache.isPlaying = FALSE],
                               frameIndex))
    /\ UNCHANGED mounted

\* the Clear button of the animation controls
ClearCache ==
    /\ ClientQuiet
    /\ anim.key # Null
    /\ Len(animCache.frames) > 0
    /\ ~animCache.isPrecomputing
    /\ LET cleared == [Client EXCEPT !.animCache = ClientInitial.animCache]
       IN  ClientBecomes(IF animCache.isPlaying THEN ComputeEffect(cleared) ELSE cleared)
    /\ UNCHANGED mounted

\* a console command is accepted when it changes params, gridN or domain
CommandAccepted(s, input) ==
    LET c == input[1]
        rest == Tail(input)
    IN  \/ c = "set" /\ Len(rest) = 2 /\ HasKey(s.params, rest[1]) /\ IsNumericText(rest[2])
        \/ c = "grid" /\ Len(rest) = 1 /\ CommandResult(s, input).gridN # s.gridN
        \/ c = "bounds" /\ Len(rest) = 4 /\ CommandResult(s, input).logs = s.logs
                        /\ ToNumber(rest[1]) < ToNumber(rest[2])

\* onCommand with a fall-through and rejections that write nothing
onCommandSilent(s, input) ==
    IF input[1] = "clear"
    THEN [s EXCEPT !.logs = << >>]
    ELSE IF CommandAccepted(s, input)
    THEN ComputeEffect(SyncInputs(CommandResult(s, input)))
    ELSE s

\* onCommand of the worker client, followed by the effects of the render it
\* causes; "clear" empties the console
onCommand(s, input) ==
    IF input[1] = "clear"
    THEN [s EXCEPT !.logs = << >>]
    ELSE IF CommandAccepted(s, input)
    THEN ComputeEffect(SyncInputs(CommandResult(s, input)))
    ELSE CommandResult(s, input)

WCommand(input) ==
    /\ EditQuiet
    /\ ClientBecomes(onCommand(Client, input))
    /\ UNCHANGED mounted

\* the worker answers the oldest request; the client receives the result
WorkerReply ==
    /\ mounted
    /\ pending # << >>
    /\ LET m == Head(pending)
       IN  ClientBecomes(Deliver([Client EXCEPT !.pending = Tail(@)],
                                 [requestId |-> m.requestId,
                                  result |-> WorkerResult(m.payload)]))
    /\ UNCHANGED mounted

InitWorker ==
    /\ exprX = ClientInitial.exprX
    /\ exprY = ClientInitial.exprY
    /\ domain = ClientInitial.domain
    /\ gridN = ClientInitial.gridN
    /\ params = ClientInitial.params
    /\ requiredParams = ClientInitial.requiredParams
    /\ seeds = ClientInitial.seeds
    /\ logs = ClientInitial.logs
    /\ mounted = FALSE
    /\ WorkerAtRest
    /\ InlineAtRest

NextWorker ==
    \/ WMount
    \/ \E t \in WExprXInputs : WSetExprX(t)
    \/ \E t \in WExprYInputs : WSetExprY(t)
    \/ \E k \in {"mu"}, raw \in WSliderTexts : WParamInput(k, raw)
    \/ \E p \in SeedPoints : WAddSeed(p)
    \/ WClearSeeds
    \/ \E k \in {Null, Some("mu")} : SelectAnimKey(k)
    \/ ClickRender
    \/ ClickUpdatePaths
    \/ TogglePlay
    \/ PlaybackTick
    \/ \E frameIndex \in 0..(numFrames - 1) : Scrub(frameIndex)
    \/ ClearCache
    \/ WorkerReply

SpecWorker == InitWorker /\ [][NextWorker]_vars

\* the bounds, grid, slider-drag and console handlers of the worker client
NextWorkerInputs ==
    \/ WMount
    \/ \E key \in WBoundsKeys, raw \in WBoundsTexts : handleDomainInputChange(key, raw)
    \/ \E key \in WBoundsKeys : commitDomainValue(key)
    \/ \E raw \in WGridTexts : handleGridChange(raw)
    \/ commitGrid
    \/ DragStart
    \/ DragEnd
    \/ DragTimeout
    \/ \E input \in WorkerCommands : WCommand(input)
    \/ WorkerReply

SpecWorkerInputs == InitWorker /\ [][NextWorkerInputs]_vars

-----------------------------------------------------------------------------
(* Properties of the worker client (SpecWorker) *)

\* the dependency array of the compute effect
ComputeDeps ==
    << exprX, exprY, params, domain, gridN, seeds, workerReady, animCache.isPlaying >>

\* this step delivers a result: one more posted message has been answered
ResultDelivered ==
    Len(posted') - Len(pending') = Len(posted) - Len(pending) + 1

\* C1: at any time at most one compute message posted to the worker is
\* still unanswered.
AtMostOneUnanswered == Len(pending) <= 1

StaleResultIgnored ==
    [][ (ResultDelivered /\ Head(pending).requestId # requestIdRef)
            => UNCHANGED << workerData, requiredParams, logs, lastStatusRef,
                            lastReportSigRef >>
      ]_vars

\* C4: every compute message posted to the worker carries a requestId
\* strictly greater than that of every message posted before it.
RequestIdsIncrease ==
    \A i \in 1..Len(posted), j \in 1..Len(posted) : i < j => posted[i] < posted[j]

\* requests have been posted by the compute effect, by a pre-computation and
\* by a trajectory update, which awaits one of its frames
AllPathsPosted ==
    /\ task # Null
    /\ task[1].kind = "reintegrate"
    /\ Len(posted) >= 5
    /\ Len(animCache.frames) = numFrames

\* C7: once a result with status other than ok has been applied, workerData
\* is null until a later result with status ok is applied.
NoDataAfterFailure ==
    lastStatusRef[1] \notin {"", "ok"} => workerData = Null

-----------------------------------------------------------------------------
(* Properties of the inline-engine component (SpecInline) *)

\* C5: the domain always satisfies xMin < xMax and yMin < yMax.
DomainOrdered == domain.xMin < domain.xMax /\ domain.yMin < domain.yMax

\* C6: gridN is always an integer with 8 <= gridN <= 200.
GridInRange == IsInteger(gridN) /\ H(8) <= gridN /\ gridN <= H(200)

\* the console entries of a report
IsReportEntry(e) == e.type = "latex" /\ e.text.msg \in {"Nullclines", "Fixed points"}

IsErrorEntry(e) ==
    /\ e.type = "text"
    /\ e.text.msg \in { ErrorText(ParseMessage("x +")),
                        ErrorText(DerivativeMessage("gamma(x)")) }

\* C8: while the expressions do not compile, the compiled system is cleared,
\* the canvas shows nothing, and the last console entry that is an error or a
\* report is the error: no output follows the error of the failed compile.
NoOutputAfterCompileError ==
    (mounted /\ compiled = Null)
        => /\ dx = Null /\ dy = Null
           /\ canvas.cleared
           /\ \E i \in 1..Len(logs) :
                 /\ IsErrorEntry(logs[i])
                 /\ \A j \in (i + 1)..Len(logs) : ~IsReportEntry(logs[j])

\* C9: while the domain has xMin >= xMax or yMin >= yMax, nothing is drawn.
NoOutputForInvalidDomain ==
    (mounted /\ (domain.xMin >= domain.xMax \/ domain.yMin >= domain.yMax))
        => canvas.cleared

\* C10: report entries are appended to the console only when the signature
\* of the report differs from the signature of the last emitted report.
ReportOnlyOnNewSignature ==
    [][ (\E i \in (Len(logs) + 1)..Len(logs') : IsReportEntry(logs'[i]))
            => lastReportStateRef' # lastReportStateRef
      ]_vars

-----------------------------------------------------------------------------
(* The engine of the draw effect: src/src/PhasePlane.js:806-1289            *)
(*                                                                         *)
(* The numeric steps of the draw effect are followed one computation at a  *)
(* time in the variable engine, a record of the local variables of the     *)
(* computation; the component itself stays as constructed.                 *)

componentVars ==
    << exprX, exprY, domain, gridN, params, requiredParams, seeds, logs, mounted,
       compiled, dx, dy, lastReportRef, lastReportStateRef, now, canvas,
       workerOnly >>

ComponentAtRest ==
    /\ exprX = InitialState.exprX
    /\ exprY = InitialState.exprY
    /\ domain = InitialState.domain
    /\ gridN = InitialState.gridN
    /\ params = InitialState.params
    /\ requiredParams = InitialState.requiredParams
    /\ seeds = InitialState.seeds
    /\ logs = InitialState.logs
    /\ mounted = FALSE
    /\ compiled = InitialState.compiled
    /\ dx = InitialState.dx
    /\ dy = InitialState.dy
    /\ lastReportRef = InitialState.lastReportRef
    /\ lastReportStateRef = InitialState.lastReportStateRef
    /\ canvas = InitialState.canvas
    /\ now = 0
    /\ WorkerAtRest

Abs(v) == IF v < 0 THEN -v ELSE v

-----------------------------------------------------------------------------
(* Classification of an equilibrium: lines 1191-1212                        *)
(*                                                                         *)
(* tr is counted in units of 5e-7 and det, disc in units of 2.5e-13 (the   *)
(* square of the unit of tr), so that disc = tr*tr - 4*det is exact.       *)

DetEps == 400      \* 1e-10, in units of det
TrEps  == 2        \* 1e-6, in units of tr

\* const disc = tr * tr - 4 * det
Discriminant(tr, det) ==
    IF IsFinite(tr) /\ IsFinite(det) THEN tr * tr - 4 * det ELSE NaN

\* a classify that tests the sign of det before its size
classifySignFirst(tr, det, disc) ==
    IF ~IsFinite(tr) \/ ~IsFinite(det) THEN "indeterminate"
    ELSE IF det < 0 THEN "saddle"
    ELSE IF Abs(det) < DetEps THEN "degenerate"
    ELSE IF disc < 0
    THEN IF Abs(tr) < TrEps THEN "center"
         ELSE IF tr < 0 THEN "spiral sink" ELSE "spiral source"
    ELSE IF disc > 0
    THEN IF tr < 0 THEN "node sink" ELSE "node source"
    ELSE IF tr < 0 THEN "degenerate sink" ELSE "degenerate source"

classify(tr, det, disc) ==
    IF ~IsFinite(tr) \/ ~IsFinite(det) THEN "indeterminate"
    ELSE IF Abs(det) < DetEps THEN "degenerate"
    ELSE IF det < 0 THEN "saddle"
    ELSE IF disc < 0
    THEN IF Abs(tr) < TrEps THEN "center"
         ELSE IF tr < 0 THEN "spiral sink" ELSE "spiral source"
    ELSE IF disc > 0
    THEN IF tr < 0 THEN "node sink" ELSE "node source"
    ELSE IF tr < 0 THEN "degenerate sink" ELSE "degenerate source"

\* cls.includes("sink")
IncludesSink(cls) == cls \in {"spiral sink", "node sink", "degenerate sink"}

\* a stability label without the saddle case
stabilityBySign(cls, tr) ==
    IF IncludesSink(cls) \/ cls = "center"
    THEN IF cls = "center" THEN "neutral" ELSE "stable"
    ELSE IF IsFinite(tr) /\ tr > 0 THEN "unstable" ELSE "stable"

\* the stability label of line 1205; NaN > 0 is false
stability(cls, tr) ==
    IF IncludesSink(cls) \/ cls = "center"
    THEN IF cls = "center" THEN "neutral" ELSE "stable"
    ELSE IF cls = "saddle" THEN "unstable"
    ELSE IF IsFinite(tr) /\ tr > 0 THEN "unstable" ELSE "stable"

\* the traces and determinants the classification is followed for
TraceInputs == { -100, -40, -3, -2, -1, 0, 1, 2, 3, 40, 100, NaN }
DetInputs   == { -10000, -401, -400, -399, -1, 0, 1, 399, 400, 401, 2500, 10000, NaN }

\* the body of the loop over refinedPoints, from the trace and determinant
\* of the Jacobian to the class and stability printed
ClassifyPoint ==
    /\ engine # << >>
    /\ engine.op = "jacobian"
    /\ LET disc == Discriminant(engine.tr, engine.det)
           cls == classify(engine.tr, engine.det, disc)
       IN  engine' = [engine EXCEPT !.op = "classified", !.disc = disc, !.cls = cls,
                                    !.stability = stability(cls, engine.tr)]
    /\ UNCHANGED componentVars

InitClassify ==
    /\ ComponentAtRest
    /\ engine \in { [op |-> "jacobian", tr |-> tr, det |-> det, disc |-> 0,
                      cls |-> "", stability |-> ""] :
                        tr \in TraceInputs, det \in DetInputs }

NextClassify == ClassifyPoint

SpecClassify == InitClassify /\ [][NextClassify]_vars

\* a point has been classified from a finite trace and determinant
Classified ==
    /\ engine # << >>
    /\ engine.op = "classified"
    /\ IsFinite(engine.tr)
    /\ IsFinite(engine.det)

IsSinkClass(cls) == cls \in {"spiral sink", "node sink", "degenerate sink"}
IsSourceClass(cls) == cls \in {"spiral source", "node source", "degenerate source"}

\* C11: for finite tr and det, with disc = tr*tr - 4*det, the class is
\* degenerate if |det| < 1e-10; else saddle if det < 0; else, for disc < 0,
\* center if |tr| < 1e-6, spiral sink if tr < 0, otherwise spiral source;
\* else, for disc > 0, node sink if tr < 0, otherwise node source; else
\* degenerate sink if tr < 0, otherwise degenerate source.
ClassifyByPriority ==
    Classified =>
        LET tr == engine.tr
            det == engine.det
            disc == tr * tr - 4 * det
            cls == engine.cls
            small == Abs(det) < DetEps
            pos == ~small /\ det >= 0
        IN  /\ engine.disc = disc
            /\ small => cls = "degenerate"
            /\ (~small /\ det < 0) => cls = "saddle"
            /\ (pos /\ disc < 0 /\ Abs(tr) < TrEps) => cls = "center"
            /\ (pos /\ disc < 0 /\ Abs(tr) >= TrEps /\ tr < 0) => cls = "spiral sink"
            /\ (pos /\ disc < 0 /\ Abs(tr) >= TrEps /\ tr >= 0) => cls = "spiral source"
            /\ (pos /\ disc > 0 /\ tr < 0) => cls = "node sink"
            /\ (pos /\ disc > 0 /\ tr >= 0) => cls = "node source"
            /\ (pos /\ disc = 0 /\ tr < 0) => cls = "degenerate sink"
            /\ (pos /\ disc = 0 /\ tr >= 0) => cls = "degenerate source"

\* a determinant below 1e-10 in size and negative: degenerate, not saddle
DegenerateBeforeSaddle ==
    /\ Classified
    /\ engine.det < 0
    /\ engine.cls = "degenerate"

\* C12, as stated: neutral exactly for center; stable for a sink class or
\* for tr < 0 with a class other than saddle; unstable for a source class,
\* for saddle, or for tr > 0 with a class other than center; a source or
\* saddle class is never stable.
StabilityAsStated ==
    Classified =>
        LET tr == engine.tr
            cls == engine.cls
            st == engine.stability
        IN  /\ (st = "neutral") <=> (cls = "center")
            /\ (IsSinkClass(cls) \/ (tr < 0 /\ cls # "saddle")) => st = "stable"
            /\ (IsSourceClass(cls) \/ cls = "saddle" \/ (tr > 0 /\ cls # "center"))
                   => st = "unstable"
            /\ (IsSourceClass(cls) \/ cls = "saddle") => st # "stable"

\* C12, amended: as above, but tr < 0 makes the label stable only for a
\* class that is neither saddle nor center (a center with a small negative
\* trace is neutral).
StabilityLabel ==
    Classified =>
        LET tr == engine.tr
            cls == engine.cls
            st == engine.stability
        IN  /\ (st = "neutral") <=> (cls = "center")
            /\ (IsSinkClass(cls) \/ (tr < 0 /\ cls \notin {"saddle", "center"}))
                   => st = "stable"
            /\ (IsSourceClass(cls) \/ cls = "saddle" \/ (tr > 0 /\ cls # "center"))
                   => st = "unstable"
            /\ (IsSourceClass(cls) \/ cls = "saddle") => st # "stable"

\* a center whose trace is negative and below 1e-6 in size
CenterWithNegativeTrace ==
    /\ Classified
    /\ engine.cls = "center"
    /\ engine.tr < 0
    /\ engine.stability = "neutral"

\* ---------------------------------------------------------------------
\* The nullcline extractor and the equilibrium finder of the draw effect,
\* followed for the linear systems f = x or -x, g = -y.
\*
\* Lengths are integers in lattice units: the side of the domain is
\* SideUnits, a nullcline cell is SideUnits / M units wide and a step of the
\* seed scan SideUnits / Mseed.  A point is << x, y >> relative to the
\* origin, so the domain is [xMin, xMin + SideUnits] x [yMin, yMin +
\* SideUnits].  One unit is ux micro-units (1e-6) of x and uy of y; values
\* of f and g and every distance compared with a tolerance are taken in
\* micro-units.
\* ---------------------------------------------------------------------
SideUnits == 1800
Mseed == 36
MinLattice == 80
MaxLattice == 200

Min2(a, b) == IF a < b THEN a ELSE b
Max2(a, b) == IF a > b THEN a ELSE b

\* M without the clamp to 80..200
LatticeMUnclamped(g) == (5 * g) \div 4

\* M of drawNullcline, from gridN (twice the grid value): floor(gridN * 2.5)
LatticeM(g) == Max2(MinLattice, Min2(MaxLattice, (5 * g) \div 4))

M == LatticeM(gridN)
Cell == SideUnits \div M
ScanStep == SideUnits \div Mseed

\* n / d for d # 0
Quot(n, d) == IF d > 0 THEN n \div d ELSE (-n) \div (-d)

\* a function f given by its values at the four corners of cell (0, 0), in
\* the order c00, c10, c11, c01, and at every other point of the cell
CellValue(e, x, y) ==
    IF x = 0 /\ y = 0 THEN e.corner[1]
    ELSE IF x = Cell /\ y = 0 THEN e.corner[2]
    ELSE IF x = Cell /\ y = Cell THEN e.corner[3]
    ELSE IF x = 0 /\ y = Cell THEN e.corner[4]
    ELSE e.center

\* evalFG for the compiled pair (e.f, e.g), in micro-units
evalFG(e, x, y) ==
    << IF e.f = "cell" THEN CellValue(e, x, y)
       ELSE IF e.f = "x" THEN x * e.ux ELSE -(x * e.ux),
       IF e.g = "0" THEN 0 ELSE -(y * e.uy) >>

\* jacobianAt for the same pair: the symbolic partial derivatives.  For
\* f = x^2 - a^2 (a in micro-units) the point is given in micro-units and
\* the first row is counted in units of 1e-6.
jacobianAt(e, x, y) ==
    << << IF e.f = "x^2-a^2" THEN 2 * x ELSE IF e.f = "x" THEN 1 ELSE -1, 0 >>,
       << 0, IF e.g = "0" THEN 0 ELSE -1 >> >>

\* one lattice unit is ux / den micro-units along x and uy / den along y;
\* den is 1 unless the record says otherwise
Den(e) == IF "den" \in DOMAIN e THEN e.den ELSE 1

\* Math.round(n / d) for d > 0
Round(n, d) == (2 * n + d) \div (2 * d)

\* Math.hypot(p - q) < tol, with tol in micro-units; the squares are taken
\* only of differences already below tol
Within(e, p, q, tol) ==
    LET ddx == Abs(p[1] - q[1]) * e.ux
        ddy == Abs(p[2] - q[2]) * e.uy
        bound == tol * Den(e)
    IN  IF ddx >= bound \/ ddy >= bound THEN FALSE
        ELSE ddx * ddx + ddy * ddy < bound * bound

approxEqual(e, p, q) == Within(e, p, q, 1)

\* the point rounded to micro-units
pointKey(e, p) == << Round(p[1] * e.ux, Den(e)), Round(p[2] * e.uy, Den(e)) >>

\* |a| < valEps for a value a in micro-units: valEps is 0.001 micro-unit
BelowValEps(a) == a = 0

\* a * b < 0 is taken by sign
crosses(a, b) ==
    IF ~IsFinite(a) \/ ~IsFinite(b) THEN FALSE
    ELSE IF BelowValEps(a) \/ BelowValEps(b) THEN TRUE
    ELSE (a < 0 /\ b > 0) \/ (a > 0 /\ b < 0)

\* lerp(a, b, clamp(|v0 - v1| < valEps ? 0.5 : v0 / (v0 - v1), 0, 1))
EdgeLerp(a, b, v0, v1) ==
    LET denom == v0 - v1
    IN  IF BelowValEps(denom) THEN a + (b - a) \div 2
        ELSE IF (v0 < 0 /\ denom > 0) \/ (v0 > 0 /\ denom < 0) THEN a
        ELSE IF Abs(v0) > Abs(denom) THEN b
        ELSE a + Quot((b - a) * v0, denom)

\* values[i][j] of drawNullcline(which): which is 1 for f and 2 for g
LatticeValue(e, which, i, j) ==
    evalFG(e, e.xMin + i * Cell, e.yMin + j * Cell)[which]

\* edgePoint(i, j, edge): 0 bottom, 1 right, 2 top, 3 left
edgePoint(e, which, i, j, edge) ==
    LET x0 == e.xMin + i * Cell
        x1 == e.xMin + (i + 1) * Cell
        y0 == e.yMin + j * Cell
        y1 == e.yMin + (j + 1) * Cell
        v(a, b) == LatticeValue(e, which, a, b)
    IN  CASE edge = 0 -> << EdgeLerp(x0, x1, v(i, j), v(i + 1, j)), y0 >>
          [] edge = 1 -> << x1, EdgeLerp(y0, y1, v(i + 1, j), v(i + 1, j + 1)) >>
          [] edge = 2 -> << EdgeLerp(x0, x1, v(i, j + 1), v(i + 1, j + 1)), y1 >>
          [] edge = 3 -> << x0, EdgeLerp(y0, y1, v(i, j), v(i, j + 1)) >>

\* pts of one cell: the crossing edges in the order 0, 1, 2, 3
CellPoints(e, which, i, j) ==
    LET c00 == LatticeValue(e, which, i, j)
        c10 == LatticeValue(e, which, i + 1, j)
        c11 == LatticeValue(e, which, i + 1, j + 1)
        c01 == LatticeValue(e, which, i, j + 1)
        entry(edge) == << [edge |-> edge, point |-> edgePoint(e, which, i, j, edge)] >>
    IN  (IF crosses(c00, c10) THEN entry(0) ELSE << >>)
            \o (IF crosses(c10, c11) THEN entry(1) ELSE << >>)
            \o (IF crosses(c01, c11) THEN entry(2) ELSE << >>)
            \o (IF crosses(c00, c01) THEN entry(3) ELSE << >>)

\* uniquePts: an entry is kept unless an entry kept before it is
\* approxEqual to it; the entries stay in edge order
RECURSIVE UniquePts(_, _, _)
UniquePts(e, pts, kept) ==
    IF pts = << >> THEN kept
    ELSE LET entry == Head(pts)
             seen == \E n \in 1..Len(kept) : approxEqual(e, kept[n].point, entry.point)
         IN  UniquePts(e, Tail(pts), IF seen THEN kept ELSE Append(kept, entry))

\* counts.get(key): the entries of pts with that key
KeyCount(e, pts, key) ==
    Cardinality({ n \in 1..Len(pts) : pointKey(e, pts[n].point) = key })

\* the segments of a cell whose three points are always chained in edge
\* order, and whose other cases are as in the cell loop
CellSegmentsChained(e, which, i, j) ==
    LET u == UniquePts(e, CellPoints(e, which, i, j), << >>)
        centerVal == evalFG(e, e.xMin + i * Cell + Cell \div 2,
                               e.yMin + j * Cell + Cell \div 2)[which]
    IN  IF Len(u) = 2 THEN << << u[1].point, u[2].point >> >>
        ELSE IF Len(u) = 3
        THEN << << u[1].point, u[2].point >>, << u[2].point, u[3].point >> >>
        ELSE IF Len(u) = 4
        THEN IF centerVal > 0
             THEN << << u[1].point, u[2].point >>, << u[3].point, u[4].point >> >>
             ELSE << << u[1].point, u[4].point >>, << u[2].point, u[3].point >> >>
        ELSE << >>

\* the segments one cell adds
CellSegments(e, which, i, j) ==
    LET pts == CellPoints(e, which, i, j)
        u == UniquePts(e, pts, << >>)
        hubs == { n \in 1..Len(u) : KeyCount(e, pts, pointKey(e, u[n].point)) > 1 }
        hub == CHOOSE n \in hubs : \A k \in hubs : n <= k
        centerVal == evalFG(e, e.xMin + i * Cell + Cell \div 2,
                               e.yMin + j * Cell + Cell \div 2)[which]
    IN  IF Len(u) = 2 THEN << << u[1].point, u[2].point >> >>
        ELSE IF Len(u) = 3
        THEN IF hubs # {}
             THEN [ n \in 1..2 |->
                      << u[hub].point,
                         u[IF n < hub THEN n ELSE n + 1].point >> ]
             ELSE << << u[1].point, u[2].point >>, << u[2].point, u[3].point >> >>
        ELSE IF Len(u) = 4
        THEN IF centerVal > 0
             THEN << << u[1].point, u[2].point >>, << u[3].point, u[4].point >> >>
             ELSE << << u[1].point, u[4].point >>, << u[2].point, u[3].point >> >>
        ELSE << >>

\* the segments of the cells lo, lo + 1, ..., hi of lattice column i, in
\* that order
RECURSIVE ColumnSegments(_, _, _, _, _)
ColumnSegments(e, which, i, lo, hi) ==
    IF lo > hi THEN << >>
    ELSE IF lo = hi THEN CellSegments(e, which, i, lo)
    ELSE LET mid == (lo + hi) \div 2
         IN  ColumnSegments(e, which, i, lo, mid)
                \o ColumnSegments(e, which, i, mid + 1, hi)

\* the candidates of extend when every unused segment listed under the key
\* of the current point is taken, approxEqual to it or not
ExtendOptionsByKey(e, segments, used, current) ==
    { idx \in 1..Len(segments) :
        /\ idx \notin used
        /\ pointKey(e, current) \in { pointKey(e, segments[idx][1]),
                                      pointKey(e, segments[idx][2]) } }

\* the unused segments listed under the key of the current point that have
\* an end approxEqual to it: the candidates of the scan in extend
ExtendOptions(e, segments, used, current) ==
    { idx \in 1..Len(segments) :
        /\ idx \notin used
        /\ pointKey(e, current) \in { pointKey(e, segments[idx][1]),
                                      pointKey(e, segments[idx][2]) }
        /\ \/ approxEqual(e, current, segments[idx][1])
           \/ approxEqual(e, current, segments[idx][2]) }

\* segTol = 1e-6 of a determinant in lattice units squared: one unit
\* squared is ux * uy * 1e-12
SegTolMicro == 1000000

\* segmentIntersect(a0, a1, b0, b1).  t and u are quotients of integers of
\* size below SideUnits * Cell over det, so t < -segTol is t < 0 and
\* t > 1 + segTol is t > 1.
segmentIntersect(e, a0, a1, b0, b1) ==
    LET r0 == << a1[1] - a0[1], a1[2] - a0[2] >>
        r1 == << b1[1] - b0[1], b1[2] - b0[2] >>
        det == r0[1] * r1[2] - r0[2] * r1[1]
        diff == << b0[1] - a0[1], b0[2] - a0[2] >>
        tn == diff[1] * r1[2] - diff[2] * r1[1]
        un == diff[1] * r0[2] - diff[2] * r0[1]
        negative(n) == (n < 0 /\ det > 0) \/ (n > 0 /\ det < 0)
        aboveOne(n) == ~negative(n) /\ Abs(n) > Abs(det)
    IN  IF Abs(det) * e.ux * e.uy < SegTolMicro THEN Null
        ELSE IF negative(tn) \/ aboveOne(tn) \/ negative(un) \/ aboveOne(un) THEN Null
        ELSE << a0[1] + Quot(tn * r0[1], det), a0[2] + Quot(tn * r0[2], det) >>

\* the elements of a finite set of pairs of naturals, in lexicographic order
Before(p, q) == p[1] < q[1] \/ (p[1] = q[1] /\ p[2] < q[2])

InOrder(S) ==
    [ n \in 1..Cardinality(S) |->
        CHOOSE p \in S : Cardinality({ q \in S : Before(q, p) }) = n - 1 ]

\* the intersections loop over nullclineF and nullclineG
Intersections(e, nullclineF, nullclineG) ==
    LET cut(p) == segmentIntersect(e, nullclineF[p[1]][1], nullclineF[p[1]][2],
                                      nullclineG[p[2]][1], nullclineG[p[2]][2])
        hits == InOrder({ p \in (1..Len(nullclineF)) \X (1..Len(nullclineG)) :
                            cut(p) # Null })
    IN  [ n \in 1..Len(hits) |-> cut(hits[n]) ]

\* evalFG and jacobianAt at a point given in micro-units
evalFGMicro(e, X, Y) ==
    << IF e.f = "x^2-a^2" THEN Round(X * X - e.a * e.a, 1000000)
       ELSE IF e.f = "x" THEN X ELSE -X,
       IF e.g = "0" THEN 0 ELSE -Y >>

\* the same values with each row in the unit of its row of jacobianAt, as
\* the quotients of the Newton step need them
evalFGRows(e, X, Y) ==
    IF e.f = "x^2-a^2" THEN << X * X - e.a * e.a, IF e.g = "0" THEN 0 ELSE -Y >>
    ELSE evalFGMicro(e, X, Y)

\* Math.hypot(P - Q) < tol for points and tol in micro-units
WithinMicro(P, Q, tol) ==
    LET ddx == Abs(P[1] - Q[1])
        ddy == Abs(P[2] - Q[2])
    IN  IF ddx >= tol \/ ddy >= tol THEN FALSE
        ELSE ddx * ddx + ddy * ddy < tol * tol

NewtonIterations == 25
ResidualTol == 10      \* 1e-5
DedupTol == 100        \* 1e-4
ScanTol == 10000       \* 1e-2

\* n / d for d # 0, to the nearest micro-unit
NearestQuot(n, d) == IF d > 0 THEN Round(n, d) ELSE Round(-n, -d)

\* the Newton loop of refinePoint from iteration it on; the step is an
\* integer of micro-units, so a step below 1e-9 is a zero step
RECURSIVE NewtonFrom(_, _, _)
NewtonFrom(e, P, it) ==
    IF it >= NewtonIterations THEN P
    ELSE LET F == evalFGRows(e, P[1], P[2])
             J == jacobianAt(e, P[1], P[2])
             det == J[1][1] * J[2][2] - J[1][2] * J[2][1]
             dxn == NearestQuot(-F[1] * J[2][2] + F[2] * J[1][2], det)
             dyn == NearestQuot(-F[2] * J[1][1] + F[1] * J[2][1], det)
             Q == << P[1] + dxn, P[2] + dyn >>
         IN  IF ~IsFinite(F[1]) \/ ~IsFinite(F[2]) THEN Null
             ELSE IF det = 0 THEN Null
             ELSE IF dxn = 0 /\ dyn = 0 THEN Q
             ELSE NewtonFrom(e, Q, it + 1)

\* refinePoint(x0, y0) for a start in micro-units
refinePoint(e, P) ==
    LET Q == NewtonFrom(e, P, 0)
        F == evalFGMicro(e, Q[1], Q[2])
    IN  IF Q = Null THEN Null
        ELSE IF ~IsFinite(F[1]) \/ ~IsFinite(F[2]) THEN Null
        ELSE IF Abs(F[1]) > ResidualTol \/ Abs(F[2]) > ResidualTol THEN Null
        ELSE IF F[1] * F[1] + F[2] * F[2] > ResidualTol * ResidualTol THEN Null
        ELSE Q

\* refinedPoints after one more candidate when every refined point is
\* pushed
PushRefinedAlways(e, points, P) ==
    LET refined == refinePoint(e, P)
    IN  IF refined = Null THEN points ELSE Append(points, refined)

\* refinedPoints after one more candidate: a refined point is pushed
\* unless it is within 1e-4 of one already there
PushRefined(e, points, P) ==
    LET refined == refinePoint(e, P)
    IN  IF refined = Null THEN points
        ELSE IF \E n \in 1..Len(points) :
                    WithinMicro(points[n], refined, DedupTol)
        THEN points
        ELSE Append(points, refined)

\* one point of the seed scan
ScanPush(e, i, j, points) ==
    LET P == pointKey(e, << e.xMin + i * ScanStep, e.yMin + j * ScanStep >>)
        F == evalFGMicro(e, P[1], P[2])
    IN  IF IsFinite(F[1]) /\ IsFinite(F[2]) /\ WithinMicro(F, << 0, 0 >>, ScanTol)
        THEN PushRefined(e, points, P)
        ELSE points

\* Math.sqrt of a perfect square
Sqrt(n) == CHOOSE r \in 0..n : r * r = n

\* an integer trace or determinant in the units of classify: the value is
\* 0 or at least 1 in size, and classify compares it only with 0 and with
\* a threshold below 1
InClassifyUnits(v, eps) == IF v = 0 THEN 0 ELSE IF v > 0 THEN eps ELSE -eps

\* the report of one refined point: Jacobian, trace, determinant,
\* discriminant, class, stability and, for disc >= 0, the eigenvalues
ReportAt(e, P) ==
    LET J == jacobianAt(e, P[1], P[2])
        tr == J[1][1] + J[2][2]
        det == J[1][1] * J[2][2] - J[1][2] * J[2][1]
        disc == tr * tr - 4 * det
        cls == classify(InClassifyUnits(tr, TrEps), InClassifyUnits(det, DetEps), disc)
        root == Sqrt(Max2(0, disc))
    IN  [ x |-> P[1], y |-> P[2], tr |-> tr, det |-> det, disc |-> disc,
          cls |-> cls,
          stability |-> stability(cls, InClassifyUnits(tr, TrEps)),
          l1 |-> IF disc >= 0 THEN Quot(tr + root, 2) ELSE NaN,
          l2 |-> IF disc >= 0 THEN Quot(tr - root, 2) ELSE NaN ]

\* one column of lattice cells of drawNullcline(which)
NullclineColumn ==
    /\ engine # << >>
    /\ engine.op = "cells"
    /\ engine.i < M
    /\ engine' = [engine EXCEPT
           !.i = @ + 1,
           !.segments = @ \o ColumnSegments(engine, engine.which, engine.i, 0, M - 1)]
    /\ UNCHANGED componentVars

\* buildPolylines(segments) is entered: nothing used, no polyline
EnterBuildPolylines ==
    /\ engine # << >>
    /\ engine.op = "cells"
    /\ engine.i = M
    /\ engine' = [engine EXCEPT !.op = "polylines", !.used = {},
                                !.polylines = << >>, !.polyline = << >>]
    /\ UNCHANGED componentVars

\* segments.forEach of buildPolylines reaches the next unused segment; a
\* polyline is opened with its two ends and is extended forward first
StartPolyline ==
    /\ engine # << >>
    /\ engine.op = "polylines"
    /\ engine.polyline = << >>
    /\ LET unused == (1..Len(engine.segments)) \ engine.used
       IN  /\ unused # {}
           /\ LET idx == CHOOSE n \in unused : \A k \in unused : n <= k
              IN  engine' = [engine EXCEPT !.used = @ \cup {idx},
                                          !.polyline = engine.segments[idx],
                                          !.forward = TRUE]
    /\ UNCHANGED componentVars

\* one turn of the while loop of extend: the first candidate is used and
\* its other end pushed (forward) or unshifted (backward); without a
\* candidate the forward extension gives way to the backward one and the
\* backward one to polylines.push
ExtendPolyline ==
    /\ engine # << >>
    /\ engine.op = "polylines"
    /\ engine.polyline # << >>
    /\ LET current == IF engine.forward THEN engine.polyline[Len(engine.polyline)]
                      ELSE engine.polyline[1]
           opts == ExtendOptions(engine, engine.segments, engine.used, current)
           foundIdx == CHOOSE idx \in opts : \A k \in opts : idx <= k
           nextPoint == IF approxEqual(engine, current, engine.segments[foundIdx][1])
                        THEN engine.segments[foundIdx][2]
                        ELSE engine.segments[foundIdx][1]
       IN  engine' =
             IF opts # {}
             THEN [engine EXCEPT
                     !.used = @ \cup {foundIdx},
                     !.polyline = IF engine.forward THEN Append(@, nextPoint)
                                  ELSE << nextPoint >> \o @]
             ELSE IF engine.forward
             THEN [engine EXCEPT !.forward = FALSE]
             ELSE [engine EXCEPT !.polylines = Append(@, engine.polyline),
                                 !.polyline = << >>]
    /\ UNCHANGED componentVars

\* the end of drawNullcline(which): the polylines are drawn, the segments
\* returned; drawNullcline("g") follows drawNullcline("f")
ReturnSegments ==
    /\ engine # << >>
    /\ engine.op = "polylines"
    /\ engine.polyline = << >>
    /\ engine.used = 1..Len(engine.segments)
    /\ engine' = IF engine.which = 1
                 THEN [engine EXCEPT !.op = "cells", !.which = 2, !.i = 0,
                                     !.segments = << >>, !.used = {},
                                     !.polylines = << >>,
                                     !.nullclineF = engine.segments,
                                     !.polylinesF = engine.polylines]
                 ELSE [engine EXCEPT !.op = "intersect", !.i = 0,
                                     !.segments = << >>, !.used = {},
                                     !.polylines = << >>,
                                     !.nullclineG = engine.segments,
                                     !.polylinesG = engine.polylines]
    /\ UNCHANGED componentVars

\* the intersections loop over the segments of the two nullclines
Intersect ==
    /\ engine # << >>
    /\ engine.op = "intersect"
    /\ LET intersections == Intersections(engine, engine.nullclineF, engine.nullclineG)
       IN  engine' = [engine EXCEPT
               !.op = IF intersections = << >> THEN "scan" ELSE "refine",
               !.i = 0, !.j = 0,
               !.intersections = intersections]
    /\ UNCHANGED componentVars

\* one turn of the loop over intersections: intersection i + 1 is refined
RefineIntersection ==
    /\ engine # << >>
    /\ engine.op = "refine"
    /\ engine' = [engine EXCEPT
           !.op = IF engine.i + 1 = Len(engine.intersections) THEN "scan" ELSE "refine",
           !.i = IF engine.i + 1 = Len(engine.intersections) THEN 0 ELSE @ + 1,
           !.points = PushRefined(engine, @,
                          pointKey(engine, engine.intersections[engine.i + 1]))]
    /\ UNCHANGED componentVars

\* one turn of the inner loop of the seed scan
ScanPoint ==
    /\ engine # << >>
    /\ engine.op = "scan"
    /\ engine.i <= Mseed
    /\ engine' = [engine EXCEPT
           !.i = IF engine.j = Mseed THEN @ + 1 ELSE @,
           !.j = IF engine.j = Mseed THEN 0 ELSE @ + 1,
           !.points = ScanPush(engine, engine.i, engine.j, @)]
    /\ UNCHANGED componentVars

\* the report: one entry for each refined point
ReportPoints ==
    /\ engine # << >>
    /\ engine.op = "scan"
    /\ engine.i > Mseed
    /\ engine' = [engine EXCEPT
           !.op = "reported",
           !.reports = [ n \in 1..Len(engine.points) |->
                           ReportAt(engine, engine.points[n]) ]]
    /\ UNCHANGED componentVars

\* the domains the finder is followed on, as << xMin, yMin, ux, uy >>: the
\* origin on a lattice line, inside a cell, on the border or outside, for
\* wide, narrow and small domains
FinderDomains ==
    { << -900, -900, 500, 500 >>, << -905, -905, 500, 500 >>,
      << -905, -925, 2, 500 >>, << -905, -905, 2, 2 >>,
      << 0, -905, 500, 500 >>, << -1800, -905, 500, 500 >>,
      << 18, -905, 500, 500 >> }

InitEquilibria ==
    /\ ComponentAtRest
    /\ engine \in { [ op |-> "cells", which |-> 1, f |-> "x", g |-> "-y",
                      xMin |-> d[1], yMin |-> d[2], ux |-> d[3], uy |-> d[4],
                      i |-> 0, j |-> 0, segments |-> << >>,
                      used |-> {}, polylines |-> << >>, polyline |-> << >>,
                      forward |-> TRUE,
                      nullclineF |-> << >>, polylinesF |-> << >>,
                      nullclineG |-> << >>, polylinesG |-> << >>,
                      intersections |-> << >>, points |-> << >>,
                      reports |-> << >> ] : d \in FinderDomains }

NextEquilibria ==
    \/ NullclineColumn
    \/ EnterBuildPolylines
    \/ StartPolyline
    \/ ExtendPolyline
    \/ ReturnSegments
    \/ Intersect
    \/ RefineIntersection
    \/ ScanPoint
    \/ ReportPoints

SpecEquilibria == InitEquilibria /\ [][NextEquilibria]_vars

\* the finder has run to its report
FinderDone ==
    /\ engine # << >>
    /\ engine.op = "reported"

\* the origin lies in the domain the finder ran on
ContainsOrigin ==
    /\ engine.xMin <= 0
    /\ 0 <= engine.xMin + SideUnits
    /\ engine.yMin <= 0
    /\ 0 <= engine.yMin + SideUnits

\* C13: for f = x, g = -y on a domain containing the origin the finder
\* reports exactly one equilibrium, at (0,0), of class saddle, with
\* eigenvalues 1 and -1.
OneSaddleAtOrigin ==
    (FinderDone /\ engine.f = "x" /\ engine.g = "-y" /\ ContainsOrigin) =>
        /\ Len(engine.reports) = 1
        /\ engine.reports[1].x = 0
        /\ engine.reports[1].y = 0
        /\ engine.reports[1].cls = "saddle"
        /\ { engine.reports[1].l1, engine.reports[1].l2 } = { 1, -1 }

\* drawNullcline("f") has returned: its polylines are built
NullclineFBuilt ==
    /\ engine # << >>
    /\ engine.which = 2

\* C18: for f = x the f-nullcline is exactly one polyline along x = 0 from
\* y = yMin to y = yMax when 0 lies in the x-range of the domain (also
\* when x = 0 is a lattice column), and no polyline when 0 lies outside.
OnePolylineAlongAxis ==
    (NullclineFBuilt /\ engine.f = "x") =>
        IF engine.xMin <= 0 /\ 0 <= engine.xMin + SideUnits
        THEN /\ Len(engine.polylinesF) = 1
             /\ \A n \in 1..Len(engine.polylinesF[1]) : engine.polylinesF[1][n][1] = 0
             /\ { engine.polylinesF[1][1][2],
                  engine.polylinesF[1][Len(engine.polylinesF[1])][2] }
                    = { engine.yMin, engine.yMin + SideUnits }
        ELSE engine.polylinesF = << >>

\* ---------------------------------------------------------------------
\* The vector field loop of the draw effect (inline-engine component)
\* ---------------------------------------------------------------------

\* lerp(lo, hi, i / (N - 1)) lies in [lo, hi], for lo < hi and gridN = 2N:
\* the sample is lo + (hi - lo) * 2i / (gridN - 2)
SampleInside(lo, hi, g, i) ==
    /\ (hi - lo) * 2 * i >= 0
    /\ (hi - lo) * 2 * i <= (hi - lo) * (g - 2)

\* the lattice indexes the loop for (i = 0; i < N; i++) runs through
SampleIndexes(g) == 0..(LoopCount(g) - 1)

\* the domain is valid: xMin < xMax and yMin < yMax
ValidDomain(d) == d.xMin < d.xMax /\ d.yMin < d.yMax

\* C14: for a valid domain and any grid value N the UI can set, every
\* vector-field sample lies in [xMin,xMax] x [yMin,yMax] and at most N*N
\* samples are evaluated.
VectorFieldInGrid ==
    (mounted /\ ~canvas.cleared /\ ValidDomain(domain)) =>
        /\ \A i \in SampleIndexes(gridN) :
              /\ SampleInside(domain.xMin, domain.xMax, gridN, i)
              /\ SampleInside(domain.yMin, domain.yMax, gridN, i)
        /\ 4 * canvas.vectors <= gridN * gridN

\* ---------------------------------------------------------------------
\* Trajectories: integrate and the path of a seed (draw effect).
\*
\* A coordinate is an integer number of ticks of 0.005, a derivative an
\* integer number of ticks per unit of time, so that with hstep = 0.01 the
\* half step 0.5 * hstep * u is u / 200 ticks and the step hstep * uu is
\* uu / 100 ticks.  The systems and seeds followed keep both quotients
\* exact.  NaN is the one non-finite number.
\* ---------------------------------------------------------------------
Steps == 800
HalfStepDiv == 200
StepDiv == 100
Margin == 200

\* a + b and a / d of numbers that may be NaN
Plus(a, b) == IF IsFinite(a) /\ IsFinite(b) THEN a + b ELSE NaN
Over(a, d) == IF IsFinite(a) THEN Quot(a, d) ELSE NaN

\* evalFG for the compiled systems followed:
\*   "sink"   f = -x,   g = -y
\*   "drift"  f = 1,    g = 0
\*   "-x/x"   f = -x/x, g = 0     (0/0 at x = 0)
evalFGTicks(sys, x, y) ==
    CASE sys = "sink" ->
            << IF IsFinite(x) THEN -x ELSE NaN, IF IsFinite(y) THEN -y ELSE NaN >>
      [] sys = "drift" -> << HalfStepDiv, 0 >>
      [] sys = "-x/x" ->
            << IF IsFinite(x) /\ x # 0 THEN -HalfStepDiv ELSE NaN, 0 >>

\* a comparison with NaN is false
Less(a, b) == IF IsFinite(a) /\ IsFinite(b) THEN a < b ELSE FALSE

\* a turn that also breaks where the derivative is zero
IntegrateTurnStopAtRest(e, dir) ==
    LET F == evalFGTicks(e.sys, e.x, e.y)
        mx == Plus(e.x, Over(dir * F[1], HalfStepDiv))
        my == Plus(e.y, Over(dir * F[2], HalfStepDiv))
        FF == evalFGTicks(e.sys, mx, my)
        nx == Plus(e.x, Over(IF IsFinite(FF[1]) THEN dir * FF[1] ELSE NaN, StepDiv))
        ny == Plus(e.y, Over(IF IsFinite(FF[2]) THEN dir * FF[2] ELSE NaN, StepDiv))
    IN  IF ~IsFinite(F[1]) \/ ~IsFinite(F[2]) \/ F = << 0, 0 >>
        THEN [e EXCEPT !.running = FALSE]
        ELSE IF \/ Less(nx, e.xMin - Margin) \/ Less(e.xMax + Margin, nx)
                \/ Less(ny, e.yMin - Margin) \/ Less(e.yMax + Margin, ny)
        THEN [e EXCEPT !.x = nx, !.y = ny, !.running = FALSE]
        ELSE [e EXCEPT !.x = nx, !.y = ny, !.k = @ + 1,
                       !.pts = Append(@, << nx, ny >>)]

\* one turn of the for loop of integrate on the locals e (x, y, k, pts):
\* break on a non-finite derivative at (x, y); midpoint step; break when
\* the new point is outside the domain expanded by 1; else push it
IntegrateTurn(e, dir) ==
    LET F == evalFGTicks(e.sys, e.x, e.y)
        mx == Plus(e.x, Over(dir * F[1], HalfStepDiv))
        my == Plus(e.y, Over(dir * F[2], HalfStepDiv))
        FF == evalFGTicks(e.sys, mx, my)
        nx == Plus(e.x, Over(IF IsFinite(FF[1]) THEN dir * FF[1] ELSE NaN, StepDiv))
        ny == Plus(e.y, Over(IF IsFinite(FF[2]) THEN dir * FF[2] ELSE NaN, StepDiv))
    IN  IF ~IsFinite(F[1]) \/ ~IsFinite(F[2])
        THEN [e EXCEPT !.running = FALSE]
        ELSE IF \/ Less(nx, e.xMin - Margin) \/ Less(e.xMax + Margin, nx)
                \/ Less(ny, e.yMin - Margin) \/ Less(e.yMax + Margin, ny)
        THEN [e EXCEPT !.x = nx, !.y = ny, !.running = FALSE]
        ELSE [e EXCEPT !.x = nx, !.y = ny, !.k = @ + 1,
                       !.pts = Append(@, << nx, ny >>)]

Reverse(s) == [ n \in 1..Len(s) |-> s[Len(s) + 1 - n] ]

\* a path joined without reversing the backward points
JoinPathUnreversed(ptsB, seed, pts) == ptsB \o << seed >> \o pts

\* pts = ptsB.reverse().concat([[s0, s1]], pts)
JoinPath(ptsB, seed, pts) == Reverse(ptsB) \o << seed >> \o pts

\* one turn of the loop of integrate(s0, s1, +1, 800, 0.01) or of
\* integrate(s0, s1, -1, 800, 0.01)
IntegrateStep ==
    /\ engine # << >>
    /\ engine.op \in {"forward", "backward"}
    /\ engine.running
    /\ engine.k < Steps
    /\ engine' = IntegrateTurn(engine, IF engine.op = "forward" THEN 1 ELSE -1)
    /\ UNCHANGED componentVars

\* integrate returns pts: the forward points are kept and the backward
\* integration starts from the seed
ReturnForward ==
    /\ engine # << >>
    /\ engine.op = "forward"
    /\ ~engine.running \/ engine.k >= Steps
    /\ engine' = [engine EXCEPT !.op = "backward", !.forwardPts = engine.pts,
                                !.pts = << >>, !.k = 0, !.running = TRUE,
                                !.x = engine.seed[1], !.y = engine.seed[2]]
    /\ UNCHANGED componentVars

\* the backward points are returned and the path is joined
ReturnBackward ==
    /\ engine # << >>
    /\ engine.op = "backward"
    /\ ~engine.running \/ engine.k >= Steps
    /\ engine' = [engine EXCEPT !.op = "joined", !.backwardPts = engine.pts,
                                !.path = JoinPath(engine.pts, engine.seed,
                                                  engine.forwardPts)]
    /\ UNCHANGED componentVars

\* the systems, seeds and domains the integration is followed for, as
\* << sys, seed, xMin, xMax, yMin, yMax >>
TrajectoryInputs ==
    { << "sink", << 0, 0 >>, -600, 600, -600, 600 >>,
      << "sink", << 0, 0 >>, 400, 600, -600, 600 >>,
      << "drift", << 0, 0 >>, -600, 600, -600, 600 >>,
      << "drift", << 0, 0 >>, -2000, 2000, -600, 600 >>,
      << "-x/x", << 1, 0 >>, -600, 600, -600, 600 >> }

InitTrajectory ==
    /\ ComponentAtRest
    /\ engine \in { [ op |-> "forward", sys |-> t[1], seed |-> t[2],
                      xMin |-> t[3], xMax |-> t[4], yMin |-> t[5], yMax |-> t[6],
                      x |-> t[2][1], y |-> t[2][2], k |-> 0, running |-> TRUE,
                      pts |-> << >>, forwardPts |-> << >>, backwardPts |-> << >>,
                      path |-> << >> ] : t \in TrajectoryInputs }

NextTrajectory ==
    \/ IntegrateStep
    \/ ReturnForward
    \/ ReturnBackward

SpecTrajectory == InitTrajectory /\ [][NextTrajectory]_vars

\* the path of the seed has been joined
PathJoined ==
    /\ engine # << >>
    /\ engine.op = "joined"

\* C15: the path is the backward points in reversed order, the seed, the
\* forward points; each direction takes at most 800 steps, so the path has
\* between 1 and 1601 points and the seed is at the index that follows the
\* backward points.
PathIsBackwardSeedForward ==
    /\ (engine # << >> /\ engine.op \in {"forward", "backward"}) =>
            (engine.k <= Steps /\ Len(engine.pts) <= Steps)
    /\ PathJoined =>
        LET nB == Len(engine.backwardPts)
            nF == Len(engine.forwardPts)
        IN  /\ nB <= Steps
            /\ nF <= Steps
            /\ Len(engine.path) = nB + 1 + nF
            /\ 1 <= Len(engine.path)
            /\ Len(engine.path) <= 2 * Steps + 1
            /\ engine.path[nB + 1] = engine.seed
            /\ \A n \in 1..nB : engine.path[n] = engine.backwardPts[nB + 1 - n]
            /\ \A n \in 1..nF : engine.path[nB + 1 + n] = engine.forwardPts[n]

\* a path of 1601 points whose backward and forward points differ
FullLengthPath ==
    /\ PathJoined
    /\ Len(engine.path) = 2 * Steps + 1
    /\ engine.path[1] # engine.path[2 * Steps + 1]

\* the domain expanded by 1 on each side contains the point p
InExpandedDomain(e, p) ==
    /\ e.xMin - Margin <= p[1]
    /\ p[1] <= e.xMax + Margin
    /\ e.yMin - Margin <= p[2]
    /\ p[2] <= e.yMax + Margin

\* C16: every point integrate appends has finite coordinates and lies in
\* the domain expanded by 1 on each side.
AppendedPointsFiniteInside ==
    (engine # << >> /\ engine.op \in {"forward", "backward"}) =>
        \A n \in 1..Len(engine.pts) :
            /\ IsFinite(engine.pts[n][1])
            /\ IsFinite(engine.pts[n][2])
            /\ InExpandedDomain(engine, engine.pts[n])

\* the seed is an equilibrium: f = g = 0 there
SeedAtEquilibrium ==
    evalFGTicks(engine.sys, engine.seed[1], engine.seed[2]) = << 0, 0 >>

\* C17, as stated: for a seed exactly at a stable equilibrium all 800
\* forward and all 800 backward steps are taken and every point of the
\* path equals the seed.
StaysAtEquilibriumAsStated ==
    (PathJoined /\ SeedAtEquilibrium) =>
        /\ Len(engine.forwardPts) = Steps
        /\ Len(engine.backwardPts) = Steps
        /\ \A n \in 1..Len(engine.path) : engine.path[n] = engine.seed

\* C17, amended: the same for a seed that lies in the domain expanded by 1
\* on each side; for a seed outside it no step is taken and the path is the
\* seed alone.
StaysAtEquilibrium ==
    (PathJoined /\ SeedAtEquilibrium) =>
        /\ \A n \in 1..Len(engine.path) : engine.path[n] = engine.seed
        /\ IF InExpandedDomain(engine, engine.seed)
           THEN Len(engine.forwardPts) = Steps /\ Len(engine.backwardPts) = Steps
           ELSE engine.path = << engine.seed >>

\* the full path of a seed at an equilibrium inside the domain
FullPathAtEquilibrium ==
    /\ PathJoined
    /\ SeedAtEquilibrium
    /\ InExpandedDomain(engine, engine.seed)
    /\ Len(engine.path) = 2 * Steps + 1

\* ---------------------------------------------------------------------
\* The parameter-sync step, followed for every params object and
\* required-parameter list over ParamNames
\* ---------------------------------------------------------------------
ParamNames == { "a", "mu", "nu" }
ParamValues == { 0, H(1), H(3), NaN }

\* the params objects over ParamNames: each name absent or with one value
ParamObjects ==
    { p \in SUBSET (ParamNames \X ParamValues) :
        \A e1 \in p, e2 \in p : e1[1] = e2[1] => e1 = e2 }

\* the setParams updater runs on prev for the required names
SyncStep ==
    /\ engine # << >>
    /\ engine.op = "sync"
    /\ engine' = [engine EXCEPT !.op = "synced",
                                !.next = SyncParams(engine.prev, engine.required)]
    /\ UNCHANGED componentVars

InitParams ==
    /\ ComponentAtRest
    /\ engine \in { [ op |-> "sync", prev |-> p, required |-> r, next |-> {} ] :
                        p \in ParamObjects, r \in SUBSET ParamNames }

NextParams == SyncStep

SpecParams == InitParams /\ [][NextParams]_vars

\* C19: after the sync step for the required names R the keys of params
\* are exactly R and every value is finite; a required key keeps a finite
\* value it had, gets 1 when it was missing or not finite, and every key
\* outside R is removed.
ParamsMatchRequired ==
    (engine # << >> /\ engine.op = "synced") =>
        /\ Keys(engine.next) = engine.required
        /\ \A e1 \in engine.next, e2 \in engine.next : e1[1] = e2[1] => e1 = e2
        /\ \A e \in engine.next : IsFinite(e[2])
        /\ \A e \in engine.prev :
              (e[1] \in engine.required /\ IsFinite(e[2])) => e \in engine.next
        /\ \A k \in engine.required :
              (\A e \in engine.prev : e[1] = k => ~IsFinite(e[2]))
                  => << k, H(1) >> \in engine.next

\* a sync that replaces a non-finite value, fills a missing key and removes
\* a key that is not required
SyncReplacesAndRemoves ==
    /\ engine # << >>
    /\ engine.op = "synced"
    /\ engine.prev = { << "mu", NaN >>, << "nu", H(3) >> }
    /\ engine.required = { "a", "mu" }
    /\ engine.next = { << "a", H(1) >>, << "mu", H(1) >> }

\* ---------------------------------------------------------------------
\* The console of the worker client: ConsolePanel's onKey and onCommand
\* ---------------------------------------------------------------------

\* the texts entered, trimmed and split on white space
ConsoleInputs ==
    { << "help" >>, << "clear" >>, << "frobnicate" >>, << "set", "mu" >>,
      << "set", "mu", "3" >>, << "set", "nu", "3" >>, << "set", "mu", "abc" >>,
      << "grid", "60" >>, << "grid", "10.5" >>,
      << "bounds", "-3", "5", "-3", "3" >>, << "bounds", "3", "3", "-3", "3" >> }

\* Enter in the console input: onCommand is called for a non-empty text
onKey(input) ==
    /\ input # << >>
    /\ WCommand(input)

InitConsole == InitWorker

NextConsole ==
    \/ WMount
    \/ \E input \in ConsoleInputs : onKey(input)
    \/ WorkerReply

SpecConsole == InitConsole /\ [][NextConsole]_vars

\* the input has the form of help, clear, set <param> <value>, grid <N> or
\* bounds <xMin> <xMax> <yMin> <yMax>
WellFormed(input) ==
    \/ input[1] \in {"help", "clear"}
    \/ input[1] = "set" /\ Len(input) = 3
    \/ input[1] = "grid" /\ Len(input) = 2
    \/ input[1] = "bounds" /\ Len(input) = 5

\* the command is rejected: unrecognized, unknown parameter name,
\* non-numeric value, grid not an integer of 8..200, bounds not ordered
Rejected(input) ==
    \/ ~WellFormed(input)
    \/ /\ input[1] = "set"
       /\ ~HasKey(params, input[2]) \/ ~IsNumericText(input[3])
    \/ /\ input[1] = "grid"
       /\ \/ ~IsNumericText(input[2])
          \/ ~IsInteger(ToNumber(input[2]))
          \/ ToNumber(input[2]) < H(8)
          \/ ToNumber(input[2]) > H(200)
    \/ /\ input[1] = "bounds"
       /\ \/ \E i \in 2..5 : ~IsNumericText(input[i])
          \/ ToNumber(input[2]) >= ToNumber(input[3])
          \/ ToNumber(input[4]) >= ToNumber(input[5])

UnknownNotice == [type |-> "text", text |-> Text("unknown command (help)", NoArg)]

\* C20: every input that is not a well-formed command adds the notice
\* 'unknown command (help)' to the console each time it is entered, and
\* every rejected command leaves params, gridN, domain and seeds unchanged:
\* in every state of the mounted component, whatever is entered next.
RejectedCommandNoticed ==
    mounted =>
        \A input \in ConsoleInputs :
            LET s == onCommand(Client, input)
            IN  /\ ~WellFormed(input) => s.logs = Append(logs, UnknownNotice)
                /\ Rejected(input) =>
                       /\ s.params = params
                       /\ s.gridN = gridN
                       /\ s.domain = domain
                       /\ s.seeds = seeds

\* C20 (amended): after an input that is not a well-formed command is
\* entered the notice is the last line of the console, appended unless the
\* last line already was that notice, and every rejected command leaves
\* params, gridN, domain and seeds unchanged.
RejectedCommandNoticedOnce ==
    mounted =>
        \A input \in ConsoleInputs :
            LET s == onCommand(Client, input)
                last == IF logs = << >> THEN << >> ELSE logs[Len(logs)]
            IN  /\ ~WellFormed(input) =>
                       s.logs = IF last = UnknownNotice THEN logs
                                ELSE Append(logs, UnknownNotice)
                /\ Rejected(input) =>
                       /\ s.params = params
                       /\ s.gridN = gridN
                       /\ s.domain = domain
                       /\ s.seeds = seeds

\* the notice is the last line of the console and a command can be entered
NoticeIsLastLine ==
    /\ mounted
    /\ logs # << >>
    /\ logs[Len(logs)] = UnknownNotice

\* ---------------------------------------------------------------------
\* The resolution of the nullcline lattice: line 943
\* ---------------------------------------------------------------------

MinGrid == 8
MaxGrid == 200

\* drawNullcline computes M from the committed grid value
ResolveLattice(n) ==
    /\ engine = << >>
    /\ engine' = [op |-> "lattice", gridN |-> H(n), M |-> LatticeM(H(n))]
    /\ UNCHANGED componentVars

InitLattice ==
    /\ ComponentAtRest
    /\ engine = << >>

NextLattice == \E n \in MinGrid..MaxGrid : ResolveLattice(n)

SpecLattice == InitLattice /\ [][NextLattice]_vars

LatticeResolved == engine # << >> /\ engine.op = "lattice"

\* C27: for every integer gridN of 8..200, M = clamp(gridN * 2.5, 80, 200)
\* (compared in quarters, gridN being counted in halves); 80 <= M <= 200,
\* M = 80 for gridN <= 32 and M = 200 for gridN >= 80.
LatticeIsClampOfProduct ==
    LatticeResolved =>
        /\ 4 * engine.M =
              Max2(4 * MinLattice, Min2(4 * MaxLattice, 5 * engine.gridN))
        /\ MinLattice <= engine.M /\ engine.M <= MaxLattice
        /\ engine.gridN <= H(32) => engine.M = MinLattice
        /\ engine.gridN >= H(80) => engine.M = MaxLattice

\* C27 (amended): M = clamp(floor(gridN * 2.5), 80, 200), with the same
\* range and end values.
LatticeIsClampOfFloor ==
    LatticeResolved =>
        /\ \E q \in 0..(3 * MaxGrid) :
              /\ 4 * q <= 5 * engine.gridN
              /\ 5 * engine.gridN < 4 * (q + 1)
              /\ engine.M = Max2(MinLattice, Min2(MaxLattice, q))
        /\ MinLattice <= engine.M /\ engine.M <= MaxLattice
        /\ engine.gridN <= H(32) => engine.M = MinLattice
        /\ engine.gridN >= H(80) => engine.M = MaxLattice

\* an odd grid value between the clamps: gridN = 33 gives M = 82, not 82.5
OddGridRoundsDown ==
    /\ LatticeResolved
    /\ engine.gridN = H(33)
    /\ engine.M = 82

\* ---------------------------------------------------------------------
\* One cell of the marching-squares loop: lines 1005-1058
\* ---------------------------------------------------------------------

\* corner and center values of the cell, in micro-units, or not a number
CornerValues == { -2, -1, 0, 1, 2, NaN }
CenterValues == { -1, 0, 1 }

\* the body of the cell loop for cell (0, 0) of drawNullcline("f")
CellLoopBody(corner, center) ==
    /\ engine = << >>
    /\ LET e == [op |-> "cell", which |-> 1, f |-> "cell", g |-> "-y",
                 xMin |-> 0, yMin |-> 0, ux |-> 500, uy |-> 500,
                 corner |-> corner, center |-> center]
           pts == CellPoints(e, 1, 0, 0)
       IN  engine' = [op |-> "cell", corner |-> corner, center |-> center,
                      pts |-> pts,
                      uniquePts |-> UniquePts(e, pts, << >>),
                      segments |-> CellSegments(e, 1, 0, 0)]
    /\ UNCHANGED componentVars

InitCell ==
    /\ ComponentAtRest
    /\ engine = << >>

NextCell ==
    \E corner \in CornerValues \X CornerValues \X CornerValues \X CornerValues,
       center \in CenterValues : CellLoopBody(corner, center)

SpecCell == InitCell /\ [][NextCell]_vars

CellDone == engine # << >> /\ engine.op = "cell"

\* the corner signs alternate around the cell
CornersAlternate ==
    /\ \A k \in 1..4 : IsFinite(engine.corner[k])
    /\ engine.corner[1] * engine.corner[2] < 0
    /\ engine.corner[2] * engine.corner[3] < 0
    /\ engine.corner[3] * engine.corner[4] < 0

\* the point lies on the edge: 0 bottom, 1 right, 2 top, 3 left
OnEdge(p, edge) ==
    CASE edge = 0 -> p[2] = 0
      [] edge = 1 -> p[1] = Cell
      [] edge = 2 -> p[2] = Cell
      [] edge = 3 -> p[1] = 0

\* the segment joins the two edges that meet at corner k (1 c00, 2 c10,
\* 3 c11, 4 c01), so it separates that corner from the rest of the cell
CutsOff(seg, k) ==
    LET edges == CASE k = 1 -> << 0, 3 >>
                   [] k = 2 -> << 0, 1 >>
                   [] k = 3 -> << 1, 2 >>
                   [] k = 4 -> << 2, 3 >>
    IN  \/ OnEdge(seg[1], edges[1]) /\ OnEdge(seg[2], edges[2])
        \/ OnEdge(seg[1], edges[2]) /\ OnEdge(seg[2], edges[1])

\* C22: in a cell with 4 distinct crossing points whose corner signs
\* alternate, each of the two segments cuts off one corner whose sign is
\* opposite to the sign of the center value, for both polarities.
CenterResolvesAmbiguity ==
    (CellDone /\ CornersAlternate /\ Len(engine.uniquePts) = 4 /\ engine.center # 0) =>
        /\ Len(engine.segments) = 2
        /\ \A n \in 1..2 :
              \E k \in 1..4 :
                  /\ CutsOff(engine.segments[n], k)
                  /\ engine.corner[k] * engine.center < 0

\* the distinct crossing points of the cell, in edge order, and the points
\* that two crossing edges contribute
DistinctPoints == [ n \in 1..Len(engine.uniquePts) |-> engine.uniquePts[n].point ]

SharedPoints ==
    { engine.pts[a].point : a \in { n \in 1..Len(engine.pts) :
        \E m \in 1..Len(engine.pts) :
            m # n /\ engine.pts[m].point = engine.pts[n].point } }

SegmentSet == { engine.segments[n] : n \in 1..Len(engine.segments) }

MaxSegments == 3    \* segments in the list handed to buildPolylines

\* segments between points given in quarters of a micro-unit: a chain, an
\* end 0.25e-6 off the chain with the same key, a closing segment, an end
\* with another key, a segment of length zero, and two ends with one key
\* that are more than 1e-6 apart
SegmentChoices ==
    { << << 0, 0 >>, << 40, 0 >> >>,
      << << 40, 0 >>, << 80, 0 >> >>,
      << << 41, 0 >>, << 80, 0 >> >>,
      << << 80, 0 >>, << 0, 0 >> >>,
      << << 42, 0 >>, << 0, 40 >> >>,
      << << 0, 0 >>, << 0, 0 >> >>,
      << << 38, 38 >>, << 0, 40 >> >>,
      << << 41, 41 >>, << 80, 0 >> >> }

SegmentLists ==
    UNION { [ 1..n -> SegmentChoices ] : n \in 0..MaxSegments }

\* return polylines
ReturnPolylines ==
    /\ engine # << >>
    /\ engine.op = "polylines"
    /\ engine.polyline = << >>
    /\ engine.used = 1..Len(engine.segments)
    /\ engine' = [engine EXCEPT !.op = "built"]
    /\ UNCHANGED componentVars

\* buildPolylines(segments) is called
InitPolylines ==
    /\ ComponentAtRest
    /\ engine \in { [op |-> "polylines", ux |-> 1, uy |-> 1, den |-> 4,
                     segments |-> segments, used |-> {}, polylines |-> << >>,
                     polyline |-> << >>, forward |-> TRUE] :
                    segments \in SegmentLists }

NextPolylines ==
    \/ StartPolyline
    \/ ExtendPolyline
    \/ ReturnPolylines

\* the call runs to its end
SpecPolylines ==
    InitPolylines /\ [][NextPolylines]_vars /\ WF_vars(NextPolylines)

Built == engine.op = "built"

\* the places of the polylines where two points follow each other
Links ==
    { << k, n >> \in (1..Len(engine.polylines)) \X (1..(MaxSegments + 2)) :
        n < Len(engine.polylines[k]) }

\* the two points at a link are the two ends of the segment
LinkIsSegment(link, seg) ==
    LET p == engine.polylines[link[1]][link[2]]
        q == engine.polylines[link[1]][link[2] + 1]
    IN  (p = seg[1] /\ q = seg[2]) \/ (p = seg[2] /\ q = seg[1])

\* the two points at a link are approxEqual to the two ends of the segment
LinkNearSegment(link, seg) ==
    LET p == engine.polylines[link[1]][link[2]]
        q == engine.polylines[link[1]][link[2] + 1]
    IN  \/ approxEqual(engine, p, seg[1]) /\ approxEqual(engine, q, seg[2])
        \/ approxEqual(engine, p, seg[2]) /\ approxEqual(engine, q, seg[1])

\* every polyline has 2 points or more and the links count the segments
CountsAgree ==
    /\ \A k \in 1..Len(engine.polylines) : Len(engine.polylines[k]) >= 2
    /\ Cardinality(Links) = Len(engine.segments)
    /\ engine.used = 1..Len(engine.segments)

\* C24: buildPolylines terminates and partitions the segment list: every
\* segment is consumed by exactly one link of one polyline, each polyline
\* has at least 2 points, the two points at each link are the endpoint pair
\* of the segment consumed there, and the links are as many as the segments.
PolylinesPartitionSegments ==
    /\ [](Built =>
            /\ CountsAgree
            /\ \E owner \in [ 1..Len(engine.segments) -> Links ] :
                  /\ \A a, b \in 1..Len(engine.segments) : owner[a] = owner[b] => a = b
                  /\ \A a \in 1..Len(engine.segments) :
                        LinkIsSegment(owner[a], engine.segments[a]))
    /\ <>Built

\* C24 (amended): as stated, but the two points at a link are the ends of
\* the consumed segment up to the approxEqual tolerance of 1e-6.
PolylinesPartitionNearSegments ==
    /\ [](Built =>
            /\ CountsAgree
            /\ \E owner \in [ 1..Len(engine.segments) -> Links ] :
                  /\ \A a, b \in 1..Len(engine.segments) : owner[a] = owner[b] => a = b
                  /\ \A a \in 1..Len(engine.segments) :
                        LinkNearSegment(owner[a], engine.segments[a]))
    /\ <>Built

\* a polyline through a join of two ends that are 0.25e-6 apart
JoinedAcrossGap ==
    /\ Built
    /\ engine.segments = << << << 0, 0 >>, << 40, 0 >> >>, << << 41, 0 >>, << 80, 0 >> >> >>
    /\ engine.polylines = << << << 0, 0 >>, << 40, 0 >>, << 80, 0 >> >> >>

\* ---------------------------------------------------------------------
\* refinePoint on its own: lines 1106-1124
\* ---------------------------------------------------------------------

\* the compiled pairs and the coordinates, in micro-units, of the points
\* refinePoint is called with: the pair (x, 0) has a Jacobian of
\* determinant 0 everywhere
RefineSystems == { << "x", "-y" >>, << "-x", "-y" >>, << "x", "0" >> }
RefineCoordinates == { -20, -9, -5, 0, 5, 9, 20 }

\* refinePoint(x0, y0) is called and returns
RefineCandidate(sys, P) ==
    /\ engine = << >>
    /\ LET e == [op |-> "refined", f |-> sys[1], g |-> sys[2], start |-> P]
       IN  engine' = [op |-> "refined", f |-> sys[1], g |-> sys[2],
                      start |-> P, refined |-> refinePoint(e, P)]
    /\ UNCHANGED componentVars

InitRefine ==
    /\ ComponentAtRest
    /\ engine = << >>

NextRefine ==
    \E sys \in RefineSystems, P \in RefineCoordinates \X RefineCoordinates :
        RefineCandidate(sys, P)

SpecRefine == InitRefine /\ [][NextRefine]_vars

\* refinePoint has returned for a start at which the determinant of the
\* Jacobian is below 1e-12 in size and the residual is not above 1e-5
SingularAtStart ==
    /\ engine # << >>
    /\ engine.op = "refined"
    /\ LET J == jacobianAt(engine, engine.start[1], engine.start[2])
           F == evalFGMicro(engine, engine.start[1], engine.start[2])
       IN  /\ J[1][1] * J[2][2] - J[1][2] * J[2][1] = 0
           /\ F[1] * F[1] + F[2] * F[2] <= ResidualTol * ResidualTol

\* C25: when the determinant of the Jacobian at the current iterate is
\* below 1e-12 in size the iteration stops and the iterate reached is kept:
\* it is returned when its residual norm passes the acceptance test.  (In
\* the pairs followed the determinant is constant, so the iterate is the
\* start.)
SingularIterateKept ==
    SingularAtStart => engine.refined = engine.start

\* ---------------------------------------------------------------------
\* The loops that fill refinedPoints: lines 1126-1152
\* ---------------------------------------------------------------------

MaxCandidates == 3    \* candidates handed to the two loops

\* f = x^2 - a^2, g = -y has the equilibria (-a, 0) and (a, 0): 0.8e-4,
\* 1e-4 and 1.2e-4 apart for these a, in micro-units
RootOffsets == { 40, 50, 60 }

\* the candidates, in micro-units, in any order
CandidatePoints ==
    { << -70, 0 >>, << -41, 7 >>, << 0, 0 >>, << 41, 0 >>, << 52, -7 >>, << 70, 7 >> }

CandidateLists ==
    UNION { [ 1..n -> CandidatePoints ] : n \in 0..MaxCandidates }

\* one turn of the loops: the next candidate is refined and pushed
RefineNext ==
    /\ engine # << >>
    /\ engine.op = "dedup"
    /\ engine.i < Len(engine.candidates)
    /\ engine' = [engine EXCEPT
           !.i = @ + 1,
           !.points = PushRefined(engine, @, engine.candidates[engine.i + 1])]
    /\ UNCHANGED componentVars

InitDedup ==
    /\ ComponentAtRest
    /\ engine \in { [op |-> "dedup", f |-> "x^2-a^2", g |-> "-y", a |-> a,
                     candidates |-> c, i |-> 0, points |-> << >>] :
                    a \in RootOffsets, c \in CandidateLists }

NextDedup == RefineNext

SpecDedup == InitDedup /\ [][NextDedup]_vars

\* C26: no two points of refinedPoints are within 1e-4 of each other
\* (Math.hypot below 1e-4; two points exactly 1e-4 apart are both kept),
\* whatever the order of the candidates.
NoTwoPointsWithinTolerance ==
    (engine # << >> /\ engine.op = "dedup") =>
        \A m, n \in 1..Len(engine.points) :
            m # n => ~WithinMicro(engine.points[m], engine.points[n], DedupTol)

\* both equilibria were candidates and the one refined second was dropped
SecondRootDropped ==
    /\ engine # << >>
    /\ engine.op = "dedup"
    /\ engine.a = 40
    /\ engine.candidates = << << 70, 7 >>, << -70, 0 >> >>
    /\ engine.i = 2
    /\ engine.points = << << 40, 0 >> >>

\* ---------------------------------------------------------------------
\* The engine as a function of the request
\* ---------------------------------------------------------------------

\* C21: running the engine twice on the same request (expressions, params,
\* domain, gridN, seeds) yields the same equilibrium list and the same
\* report signature, whatever the earlier requests, the log and the clock:
\* the equilibrium list in the signature the draw effect records is the
\* list of the system parsed from the expressions in that signature, for
\* the parameter values in it.
EngineResultFromRequest ==
    lastReportStateRef # EmptySignature =>
        /\ lastReportStateRef[4][1] = toAscii(lastReportStateRef[1])
        /\ lastReportStateRef[4][2] = toAscii(lastReportStateRef[2])
        /\ sortedParams(lastReportStateRef[4][3]) = lastReportStateRef[3]

\* C29: while the animation pre-computation is running or a parameter
\* slider is being dragged, a worker result appends no report entries to the
\* console: the report signature and the report entries stay as they are.
NoReportWhileBusy ==
    [][ (ResultDelivered /\ (animCache.isPrecomputing \/ isDraggingRef))
            => /\ lastReportSigRef' = lastReportSigRef
               /\ Cardinality({ n \in 1..Len(logs') : IsReportEntry(logs'[n]) })
                    = Cardinality({ n \in 1..Len(logs) : IsReportEntry(logs[n]) })
      ]_vars

\* ---------------------------------------------------------------------
\* The worker client when the worker can fail: src/unnamed/part_002
\* ---------------------------------------------------------------------

\* the worker throws on the oldest request, so no result message follows
\* for it, and worker.onerror runs in the client
onerror ==
    /\ mounted
    /\ pending # << >>
    /\ ClientBecomes([Client EXCEPT !.pending = Tail(@),
                                    !.logs = error(@, "Worker error")])
    /\ UNCHANGED mounted

NextWorkerErrors ==
    \/ WMount
    \/ \E t \in WExprXInputs : WSetExprX(t)
    \/ \E k \in {"mu"}, raw \in WSliderTexts : WParamInput(k, raw)
    \/ \E p \in SeedPoints : WAddSeed(p)
    \/ WClearSeeds
    \/ WorkerReply
    \/ onerror

\* the worker ends every request it has received, with a result or with
\* an error
SpecWorkerErrors ==
    InitWorker /\ [][NextWorkerErrors]_vars /\ WF_vars(onerror \/ WorkerReply)

\* C28: the payload queued by postCompute is eventually posted once the
\* request in flight ends, with a result or with a worker error, and the
\* client does not stay in a state where inflightRef is set and no request
\* is outstanding.
QueuedPayloadPosted ==
    /\ (queuedPayloadRef # Null) ~> (queuedPayloadRef = Null)
    /\ []<>(~inflightRef \/ pending # << >>)

\* ---------------------------------------------------------------------
\* useLogs on its own: any sequence of line/latex/error/clear calls
\* ---------------------------------------------------------------------

MaxVariedLen == 3   \* plain lines are pushed while the log is shorter than this

BoundsMessage == "Bounds must satisfy xMin < xMax and yMin < yMax"

\* line("Error: " + m) and error(m) push the same entry
LineMessages == { ErrorText(BoundsMessage) }
PlainMessages == { "bad bounds" }
ErrorMessages == { BoundsMessage }
LatexTexts == { Text("Nullclines", NoArg) }

\* setLogs([])
clear(entries) == << >>

LogsBecome(entries) ==
    /\ logs' = entries
    /\ UNCHANGED << exprX, exprY, domain, gridN, params, requiredParams, seeds,
                    mounted, inlineOnly, workerOnly >>

CallLine(m) == LogsBecome(line(logs, m))

CallPlainLine(m) ==
    /\ Len(logs) < MaxVariedLen
    /\ LogsBecome(line(logs, m))

CallLatex(t) == LogsBecome(latex(logs, t))

CallError(m) == LogsBecome(error(logs, m))

CallClear == LogsBecome(clear(logs))

InitLogs ==
    /\ ComponentAtRest
    /\ engine = << >>

NextLogs ==
    \/ \E m \in LineMessages : CallLine(m)
    \/ \E m \in PlainMessages : CallPlainLine(m)
    \/ \E t \in LatexTexts : CallLatex(t)
    \/ \E m \in ErrorMessages : CallError(m)
    \/ CallClear

SpecLogs == InitLogs /\ [][NextLogs]_vars

SameEntry(a, b) == a.type = b.type /\ a.text = b.text

\* C30: the log never holds two adjacent entries with the same type and
\* text, it never holds more than the newest entry and the 400 before it,
\* and a push that repeats the last entry leaves it unchanged.
LogsDedupedAndCapped ==
    /\ \A n \in 1..(Len(logs) - 1) : ~SameEntry(logs[n], logs[n + 1])
    /\ Len(logs) <= LogKeep + 1
    /\ logs # << >> =>
          push(logs, logs[Len(logs)].type, logs[Len(logs)].text) = logs

\* the log is full: the next new entry drops the oldest one
LogIsFull == Len(logs) = LogKeep + 1

====
